---- MODULE Spec2Model ----
(***************************************************************************)
(* A model of CodeMate-AI's command-execution core:                        *)
(*   - the auto-reconnecting transport, WebSocketClient                    *)
(*     (cmate-front/src/localization.ts);                                  *)
(*   - the command registry, CommandRegistry                               *)
(*     (cmate-front/src/commands/commandRegistry.ts) and its handlers.     *)
(* Each component has its own specification over the shared variable list; *)
(* the variables of the other component stay at their initial values.      *)
(***************************************************************************)
EXTENDS Integers, Sequences, FiniteSets, TLC

\* ------------------------------------------------------------------------
\* Bounds of the model
\* ------------------------------------------------------------------------

\* Sockets and pending reconnect timers that may exist at the same time.
MaxSocks == 3

\* Saturation of the count of consecutive unplanned disconnects.
MaxCount == 6

\* Longest path string in a payload.
MaxPathLen == 2

\* Largest duration (ms) the registry measures for a handler's execute.
MaxDuration == 1

\* Number of operations addOperation creates, and the longest operations list.
MaxOpIds == 3

MaxOps == 2

\* Number of history entries addToHistory creates.
MaxEntries == 52

\* Longest list of listeners, and the number of wrappers once creates.
MaxListeners == 2

MaxOnce == 2

\* Saturation of the count of calls of a callback handed to once.
MaxCalls == 2

\* Number of executeCommand messages the WebView sends.
MaxCommands == 2

\* Longest list of descriptors handed to registerBatch.
MaxBatch == 2

\* Number of ids generateUUID makes for the envelopes of ProtocolHandler.
MaxUuids == 3

\* ------------------------------------------------------------------------
\* Program constants
\* ------------------------------------------------------------------------

\* private reconnectDelay = 1000; also the value the open handler resets to.
FloorDelay == 1000

\* private maxDelay = 30000
maxDelay == 30000

\* [fullEntry, ...this.state.history].slice(0, 50)
HistoryCap == 50

\* setTimeout(() => { this.stateManager.removeOperation(operationId); }, 3000)
GracePeriod == 3000

VARIABLES
    \* ---- WebSocketClient fields
    ws,               \* this.ws: the slot of the latest socket, 0 = undefined
    reconnectDelay,   \* this.reconnectDelay
    shouldReconnect,  \* this.shouldReconnect
    connecting,       \* this.connecting
    \* ---- environment of the WebSocketClient
    sockState,        \* readyState of every socket the client created
    timers,           \* number of pending reconnect timers (setTimeout)
    lastInfo,         \* the last text handed to the onInfo observer
    \* ---- one send() call in flight
    sendPc,           \* "idle" | "waiting" | "sent" | "failed"
    transmitted,      \* how many times ws.send ran for the current message
    txState,          \* readyState of the socket ws.send ran on, or "none"
    openSeen,         \* some socket was OPEN during the current send() call
    \* ---- history variables of the transport
    unplanned,        \* unplanned disconnects since the last successful open
    \* ---- CommandRegistry
    commands,         \* this.commands: command id -> descriptor, or NoDescriptor
    \* ---- one execute(request) call
    rpc,              \* "idle" | "settled"
    req,              \* the request of the call
    outcome,          \* "none" | "resolved" | "rejected": how the promise settled
    resp,             \* the OperationResponse the promise resolved to
    \* ---- history variables of the registry
    removedBy,        \* command id -> "never" | "unregister" | "clear" | "none"
    validateCalls,    \* calls of the handler's validate in this call
    executeCalls,     \* calls of the handler's execute in this call
    lastBatch,        \* the list the latest call, if registerBatch, was given,
                      \* and the commands before it
    \* ---- StateManager fields
    state,            \* this.state
    listeners,        \* this.changeListeners: [cb, wrapper], wrapper 0 = none
    \* ---- environment of the StateManager
    got,              \* the value of getState() a caller holds, and which
                      \* of its two arrays are still the arrays of this.state
    nextWrapper,      \* the next wrapper function once creates
    microtasks,       \* wrappers of once that are to resume after their await
    nextOpId,         \* the next id generateUUID gives to an operation
    nextEntryId,      \* the next id generateUUID gives to a history entry
    kept,             \* the event a listener kept, while that object is
                      \* this.state
    \* ---- history variables of the StateManager
    onceCalls,        \* wrapper -> calls of the callback handed to once
    notified,         \* the listeners the method called last invoked, in order
    notifiedWith,     \* the state the latest emit handed to them
    unhandled,        \* a promise of emit rejected, and nothing handles it
    lastCall,         \* the method called last
    \* ---- CodeMateSidebarProvider: executeCommand calls and their timers
    runs,             \* the calls that await this.commandRegistry.execute
    removeTimers,     \* the pending setTimeout(() => removeOperation(id), delay)
    lastPosted,       \* type of the last result message posted to the WebView
    posted,           \* the messages the latest handler posted to the WebView,
                      \* in order
    \* ---- MessageProtocol: a message on its way through the codec
    sent,             \* the envelope handed to serializeMessage, if any
    wire,             \* the text handed to parseMessage
    parsed,           \* what parseMessage did with that text
    built,            \* the envelope the latest create* call returned, with
                      \* the id it was handed and the id it generated
    nextUuid          \* the next id generateUUID gives to an envelope

tvars == <<ws, reconnectDelay, shouldReconnect, connecting, sockState, timers,
           lastInfo, sendPc, transmitted, txState, openSeen, unplanned>>

rvars == <<commands, rpc, req, outcome, resp, removedBy, validateCalls,
           executeCalls, lastBatch>>

svars == <<state, listeners, got, nextWrapper, microtasks, nextOpId,
           nextEntryId, kept, onceCalls, notified, notifiedWith, unhandled,
           lastCall>>

pvars == <<runs, removeTimers, lastPosted, posted>>

cvars == <<sent, wire, parsed, built, nextUuid>>

\* What a method of the StateManager leaves alone.
nonStore == <<tvars, rvars, pvars, cvars>>

vars == <<tvars, rvars, svars, pvars, cvars>>

Slots == 1..MaxSocks

ReadyStates == {"free", "connecting", "open", "closing", "closed"}

Min(a, b) == IF a <= b THEN a ELSE b

\* ------------------------------------------------------------------------
\* WebSocketClient
\* ------------------------------------------------------------------------

\* A socket that can still emit events.
Live(i) == sockState[i] \in {"connecting", "open", "closing"}

NumLive == Cardinality({i \in Slots : Live(i)})

\* this.ws && this.ws.readyState === WebSocket.OPEN
WsOpen == ws # 0 /\ sockState[ws] = "open"

\* A closed socket that this.ws stops referring to is unreachable: its slot
\* is reused.
Released(ss, w) ==
    IF w # 0 /\ ss[w] = "closed" THEN [ss EXCEPT ![w] = "free"] ELSE ss

FreshSlot(ss) ==
    CHOOSE i \in Slots : ss[i] = "free" /\ \A j \in Slots : j < i => ss[j] # "free"

\* tryConnect: this.ws = new WebSocket(url), announced to onInfo.
TryConnect ==
    LET r == Released(sockState, ws)
        n == FreshSlot(r)
    IN  /\ sockState' = [r EXCEPT ![n] = "connecting"]
        /\ ws' = n
        /\ lastInfo' = "connecting"

\* The early return of connect().
ConnectGuard == connecting /\ WsOpen

\* connect()
Connect ==
    /\ NumLive + timers < MaxSocks
    /\ IF ConnectGuard
       THEN UNCHANGED <<ws, reconnectDelay, shouldReconnect, connecting,
                        sockState, timers, lastInfo>>
       ELSE /\ shouldReconnect' = TRUE
            /\ connecting' = TRUE
            /\ TryConnect
            /\ UNCHANGED <<reconnectDelay, timers>>
    /\ UNCHANGED <<sendPc, transmitted, txState, openSeen, unplanned>>
    /\ UNCHANGED <<rvars, svars, pvars, cvars>>

\* ws.on('open')
OnOpen(i) ==
    /\ sockState[i] = "connecting"
    /\ sockState' = [sockState EXCEPT ![i] = "open"]
    /\ lastInfo' = "connected"
    /\ reconnectDelay' = FloorDelay
    /\ connecting' = FALSE
    /\ unplanned' = 0
    /\ openSeen' = (openSeen \/ sendPc = "waiting")
    /\ UNCHANGED <<ws, shouldReconnect, timers, sendPc, transmitted, txState>>
    /\ UNCHANGED <<rvars, svars, pvars, cvars>>

\* An error handler that arms the reconnect timer, as the close handler does.
OnErrorReconnects(i) ==
    /\ Live(i)
    /\ lastInfo' = "error"
    /\ timers' = timers + 1
    /\ UNCHANGED <<ws, reconnectDelay, shouldReconnect, connecting, sockState,
                   sendPc, transmitted, txState, openSeen, unplanned>>
    /\ UNCHANGED <<rvars, svars, pvars, cvars>>

\* ws.on('error')
OnError(i) ==
    /\ Live(i)
    /\ lastInfo' = "error"
    /\ UNCHANGED <<ws, reconnectDelay, shouldReconnect, connecting, sockState,
                   timers, sendPc, transmitted, txState, openSeen, unplanned>>
    /\ UNCHANGED <<rvars, svars, pvars, cvars>>

\* A close handler that never arms the reconnect timer.
SchedulesNever == FALSE

\* The close handler's decision to schedule a reconnect.
SchedulesReconnect == shouldReconnect

\* ws.on('close'): the socket is CLOSED; unless shutdown was requested a
\* reconnect timer is armed with the current delay.
OnClose(i) ==
    /\ Live(i)
    /\ sockState' = [sockState EXCEPT ![i] = IF ws = i THEN "closed" ELSE "free"]
    /\ lastInfo' = "disconnected"
    /\ IF SchedulesReconnect
       THEN /\ timers' = timers + 1
            /\ unplanned' = Min(unplanned + 1, MaxCount)
       ELSE UNCHANGED <<timers, unplanned>>
    /\ UNCHANGED <<ws, reconnectDelay, shouldReconnect, connecting, sendPc,
                   transmitted, txState, openSeen>>
    /\ UNCHANGED <<rvars, svars, pvars, cvars>>

\* A missing cap on the doubled delay.
NextDelayUncapped(d) == d * 2

\* Math.min(this.reconnectDelay * 2, this.maxDelay)
NextDelay(d) == Min(d * 2, maxDelay)

\* The callback of the reconnect timer.
OnTimer ==
    /\ timers > 0
    /\ timers' = timers - 1
    /\ reconnectDelay' = NextDelay(reconnectDelay)
    /\ TryConnect
    /\ UNCHANGED <<shouldReconnect, connecting, sendPc, transmitted, txState,
                   openSeen, unplanned>>
    /\ UNCHANGED <<rvars, svars, pvars, cvars>>

\* close(): ws.close() moves a CONNECTING or OPEN socket to CLOSING and does
\* nothing to a CLOSING or CLOSED one; its 'close' event comes later.
Close ==
    /\ shouldReconnect' = FALSE
    /\ sockState' = IF ws # 0 /\ sockState[ws] \in {"connecting", "open"}
                    THEN [sockState EXCEPT ![ws] = "closing"]
                    ELSE sockState
    /\ UNCHANGED <<ws, reconnectDelay, connecting, timers, lastInfo, sendPc,
                   transmitted, txState, openSeen, unplanned>>
    /\ UNCHANGED <<rvars, svars, pvars, cvars>>

\* A send() that checks only that a socket exists, not that it is OPEN.
SendReadyAnySocket == ws # 0

\* if (!this.ws || this.ws.readyState !== WebSocket.OPEN) throw ...
SendReady == WsOpen

\* The tail of send(): throw 'WebSocket is not connected', or this.ws.send.
SendFinish ==
    IF SendReady
    THEN /\ sendPc' = "sent"
         /\ transmitted' = transmitted + 1
         /\ txState' = sockState[ws]
    ELSE /\ sendPc' = "failed"
         /\ UNCHANGED <<transmitted, txState>>

\* send(message) on a socket that is OPEN: no wait.
SendNow ==
    /\ sendPc \in {"idle", "sent", "failed"}
    /\ WsOpen
    /\ sendPc' = IF SendReady THEN "sent" ELSE "failed"
    /\ transmitted' = IF SendReady THEN 1 ELSE 0
    /\ txState' = IF SendReady THEN sockState[ws] ELSE "none"
    /\ openSeen' = TRUE
    /\ UNCHANGED <<ws, reconnectDelay, shouldReconnect, connecting, sockState,
                   timers, lastInfo, unplanned>>
    /\ UNCHANGED <<rvars, svars, pvars, cvars>>

\* send(message) on a socket that is not OPEN: suspends in waitForOpen(10000).
SendWait ==
    /\ sendPc \in {"idle", "sent", "failed"}
    /\ ~WsOpen
    /\ sendPc' = "waiting"
    /\ transmitted' = 0
    /\ txState' = "none"
    /\ openSeen' = (\E i \in Slots : sockState[i] = "open")
    /\ UNCHANGED <<ws, reconnectDelay, shouldReconnect, connecting, sockState,
                   timers, lastInfo, unplanned>>
    /\ UNCHANGED <<rvars, svars, pvars, cvars>>

\* The poll of waitForOpen, every 100 ms.
PollFindsOpen == WsOpen

\* waitForOpen resolves because a poll found the socket OPEN; send resumes.
SendResume ==
    /\ sendPc = "waiting"
    /\ PollFindsOpen
    /\ SendFinish
    /\ UNCHANGED <<ws, reconnectDelay, shouldReconnect, connecting, sockState,
                   timers, lastInfo, openSeen, unplanned>>
    /\ UNCHANGED <<rvars, svars, pvars, cvars>>

\* waitForOpen resolves because the 10000 ms are over; send resumes.
SendTimeout ==
    /\ sendPc = "waiting"
    /\ ~PollFindsOpen
    /\ SendFinish
    /\ UNCHANGED <<ws, reconnectDelay, shouldReconnect, connecting, sockState,
                   timers, lastInfo, openSeen, unplanned>>
    /\ UNCHANGED <<rvars, svars, pvars, cvars>>

\* ------------------------------------------------------------------------
\* Values of the language, as far as the handlers look at them
\* ------------------------------------------------------------------------

Undefined == [t |-> "undefined"]

Null == [t |-> "null"]

\* A string: a name (a TLA+ string) or a path (a sequence of characters).
Str(v) == [t |-> "string", v |-> v]

Num(v) == [t |-> "number", v |-> v]

Bool(v) == [t |-> "boolean", v |-> v]

\* !x for a value that is undefined, null, a number or a string.
Falsy(x, empty) ==
    \/ x.t \in {"undefined", "null"}
    \/ x.t = "number" /\ x.v = 0
    \/ x.t = "string" /\ x.v = empty

\* s.includes(sub), on sequences of characters
Includes(s, sub) ==
    \E i \in 1..(Len(s) - Len(sub) + 1) : SubSeq(s, i, i + Len(sub) - 1) = sub

\* s.startsWith(c)
StartsWith(s, c) == Len(s) >= 1 /\ s[1] = c

\* An error message: its fixed text and the value interpolated into it.
Message(text, arg) == [text |-> text, arg |-> arg]

\* What a validate call does: it throws, or returns {valid, errors}; errors
\* is undefined (here the empty list) when there is none.
Threw == [threw |-> TRUE, valid |-> FALSE, errors |-> <<>>]

Returned(errors) == [threw |-> FALSE, valid |-> (Len(errors) = 0), errors |-> errors]

\* ------------------------------------------------------------------------
\* validators.validateFilePath
\* ------------------------------------------------------------------------

\* A validateFilePath that does not look for the parent directory.
PathErrorsNoTraversal(path) ==
    (IF path = <<>> THEN <<Message("Path cannot be empty", "")>> ELSE <<>>)
    \o (IF StartsWith(path, "/")
        THEN <<Message("Absolute paths are not allowed", "")>> ELSE <<>>)
    \o (IF path # <<>> /\ Includes(path, <<"NUL">>)
        THEN <<Message("Path contains invalid characters", "")>> ELSE <<>>)

\* The error list of validateFilePath(path), path a string.
PathErrors(path) ==
    (IF path = <<>> THEN <<Message("Path cannot be empty", "")>> ELSE <<>>)
    \o (IF Includes(path, <<".", ".">>)
        THEN <<Message("Path traversal (../) is not allowed", "")>> ELSE <<>>)
    \o (IF StartsWith(path, "/")
        THEN <<Message("Absolute paths are not allowed", "")>> ELSE <<>>)
    \o (IF path # <<>> /\ Includes(path, <<"NUL">>)
        THEN <<Message("Path contains invalid characters", "")>> ELSE <<>>)

\* validateFilePath(x) throws on a truthy value without an includes method.
PathThrows(x) == x.t = "number" /\ x.v # 0

\* ------------------------------------------------------------------------
\* FileOpsHandler
\* ------------------------------------------------------------------------

FileOpTypes == {"create", "delete", "modify", "copy", "move", "rename"}

\* The check of a path field: required, then validateFilePath.
PathFieldErrors(x, required) ==
    IF Falsy(x, <<>>) THEN <<required>> ELSE PathErrors(x.v)

\* FileOpsHandler.validate(payload)
FileOpsValidate(payload) ==
    IF payload.t \in {"null", "undefined"} THEN Threw
    ELSE
    LET type == payload.type
        needsSource == type.t = "string" /\ type.v \in {"copy", "move", "rename"}
        needsContent == type.t = "string" /\ type.v \in {"create", "modify"}
        typeErrors ==
            IF Falsy(type, "") THEN <<Message("Operation type is required", "")>>
            ELSE IF type.v \notin FileOpTypes
                 THEN <<Message("Invalid operation type: ", type.v)>>
                 ELSE <<>>
        targetErrors ==
            PathFieldErrors(payload.targetPath, Message("Target path is required", ""))
        sourceErrors ==
            IF needsSource
            THEN PathFieldErrors(payload.sourcePath,
                     Message("Source path is required for operation ", type.v))
            ELSE <<>>
        contentErrors ==
            IF needsContent /\ payload.content.t # "string"
            THEN <<Message("Content must be a string", "")>>
            ELSE <<>>
    IN  IF \/ ~Falsy(payload.targetPath, <<>>) /\ PathThrows(payload.targetPath)
           \/ needsSource /\ ~Falsy(payload.sourcePath, <<>>)
                          /\ PathThrows(payload.sourcePath)
        THEN Threw
        ELSE Returned(typeErrors \o targetErrors \o sourceErrors \o contentErrors)

\* A response without metadata. The keys of metadata are duration, cached
\* and any other; cached stands for the others here.
NoMetadata == [present |-> FALSE, duration |-> Undefined, cached |-> Undefined]

\* FileOpsHandler.execute(request): it throws nothing on a payload that
\* passed validate.
FileOpsExecute(request) ==
    [threw |-> FALSE,
     response |-> [id |-> request.id,
                   status |-> "success",
                   data |-> [type |-> request.payload.type,
                             path |-> request.payload.targetPath],
                   error |-> [code |-> "none", message |-> Message("", ""),
                              errors |-> <<>>],
                   metadata |-> NoMetadata]]

\* ------------------------------------------------------------------------
\* DebugHandler
\* ------------------------------------------------------------------------

DebugOpTypes == {"setBreakpoint", "clearBreakpoint", "addWatch", "enableLogging"}

LogLevels == {"debug", "info", "warn", "error"}

\* DebugHandler.validate(payload)
DebugValidate(payload) ==
    IF payload.t \in {"null", "undefined"} THEN Threw
    ELSE
    LET type == payload.type
        typeErrors ==
            IF Falsy(type, "") THEN <<Message("Debug operation type is required", "")>>
            ELSE IF type.v \notin DebugOpTypes
                 THEN <<Message("Invalid debug operation type: ", type.v)>>
                 ELSE <<>>
        pathErrors ==
            PathFieldErrors(payload.filePath, Message("File path is required", ""))
        lineErrors ==
            IF /\ type.t = "string"
               /\ type.v \in {"setBreakpoint", "clearBreakpoint"}
               /\ (payload.lineNumber.t # "number" \/ payload.lineNumber.v < 1)
            THEN <<Message("Valid line number is required", "")>> ELSE <<>>
        watchErrors ==
            IF /\ type.t = "string"
               /\ type.v = "addWatch"
               /\ (Falsy(payload.expression, "") \/ payload.expression.t # "string")
            THEN <<Message("Watch expression is required", "")>> ELSE <<>>
        levelErrors ==
            IF /\ type.t = "string"
               /\ type.v = "enableLogging"
               /\ ~Falsy(payload.logLevel, "")
               /\ payload.logLevel.v \notin LogLevels
            THEN <<Message("Invalid log level", "")>> ELSE <<>>
    IN  IF ~Falsy(payload.filePath, <<>>) /\ PathThrows(payload.filePath)
        THEN Threw
        ELSE Returned(typeErrors \o pathErrors \o lineErrors \o watchErrors
                      \o levelErrors)

\* DebugHandler.execute(request)
DebugExecute(request) ==
    [threw |-> FALSE,
     response |-> [id |-> request.id,
                   status |-> "success",
                   data |-> [type |-> request.payload.type,
                             path |-> request.payload.filePath],
                   error |-> [code |-> "none", message |-> Message("", ""),
                              errors |-> <<>>],
                   metadata |-> NoMetadata]]

\* ------------------------------------------------------------------------
\* ExecHandler
\* ------------------------------------------------------------------------

\* A path is a sequence of characters and of runs of letters; these are
\* the runs that are a supported extension.
SupportedExts == {"py", "sh", "js", "ts", "jsx", "tsx"}

\* c.toLowerCase()
ToLowerCase(c) == IF c = "PY" THEN "py" ELSE c

\* path.split('.').pop(): what follows the last dot, the path without one.
LastSegment(path) ==
    LET dots == {i \in DOMAIN path : path[i] = "."}
    IN  IF dots = {} THEN path
        ELSE SubSeq(path, (CHOOSE i \in dots : \A j \in dots : j <= i) + 1, Len(path))

\* ['py', 'sh', 'js', 'ts', 'jsx', 'tsx'].includes(ext || '')
Supported(path) ==
    LET ext == LastSegment(path)
    IN  Len(ext) = 1 /\ ToLowerCase(ext[1]) \in SupportedExts

\* ExecHandler.validate(payload)
ExecValidate(payload) ==
    IF payload.t \in {"null", "undefined"} THEN Threw
    ELSE
    LET filePath == payload.filePath
        pathErrors == PathFieldErrors(filePath, Message("File path is required", ""))
        extErrors ==
            IF ~Falsy(filePath, <<>>) /\ ~Supported(filePath.v)
            THEN <<Message("Unsupported file type: .", LastSegment(filePath.v))>>
            ELSE <<>>
    IN  IF ~Falsy(filePath, <<>>) /\ PathThrows(filePath)
        THEN Threw
        ELSE Returned(pathErrors \o extErrors)

\* ExecHandler.execute(request)
ExecExecute(request) ==
    [threw |-> FALSE,
     response |-> [id |-> request.id,
                   status |-> "success",
                   data |-> [type |-> Undefined,
                             path |-> request.payload.filePath],
                   error |-> [code |-> "none", message |-> Message("", ""),
                              errors |-> <<>>],
                   metadata |-> NoMetadata]]

\* ------------------------------------------------------------------------
\* CommandHandler: the handlers a descriptor may carry
\* ------------------------------------------------------------------------

\* Implementations of the interface other than FileOpsHandler, as a caller
\* may register them: one whose validate reports two errors, one whose
\* validate throws, one whose execute throws an Error, one whose execute
\* rejects with a value that is no Error, one whose execute succeeds with a
\* response that carries an id of its own. "stubMetadata" is one whose
\* execute succeeds with a response that has metadata: a duration the
\* registry cannot measure, and another key.
StubHandlers ==
    {"stubInvalid", "stubValidateThrows", "stubExecuteThrows", "stubExecuteRejects",
     "stubForeignId"}

\* new Error(message)
ErrorObject(message) == [t |-> "Error", message |-> message]

NoError == [code |-> "none", message |-> Message("", ""), errors |-> <<>>]

Handlers == {"fileOps"} \cup StubHandlers

\* descriptor.handler.validate(payload)
HandlerValidate(h, payload) ==
    CASE h = "fileOps" -> FileOpsValidate(payload)
      [] h = "debug" -> DebugValidate(payload)
      [] h = "exec" -> ExecValidate(payload)
      [] h = "stubInvalid" ->
            Returned(<<Message("first error", ""), Message("second error", "")>>)
      [] h = "stubValidateThrows" -> Threw
      [] OTHER -> Returned(<<>>)

\* await descriptor.handler.execute(request)
HandlerExecute(h, request) ==
    CASE h = "fileOps" -> FileOpsExecute(request)
      [] h = "debug" -> DebugExecute(request)
      [] h = "exec" -> ExecExecute(request)
      [] h = "stubForeignId" ->
            [threw |-> FALSE,
             response |-> [id |-> "other", status |-> "success", data |-> Undefined,
                           error |-> NoError,
                           metadata |-> NoMetadata]]
      [] h = "stubMetadata" ->
            [threw |-> FALSE,
             response |-> [id |-> request.id, status |-> "success",
                           data |-> Undefined, error |-> NoError,
                           metadata |-> [present |-> TRUE,
                                         duration |-> Num(MaxDuration + 1),
                                         cached |-> Bool(TRUE)]]]
      [] h = "stubExecuteRejects" -> [threw |-> TRUE, error |-> Str("denied")]
      [] OTHER -> [threw |-> TRUE, error |-> ErrorObject("boom")]

\* ------------------------------------------------------------------------
\* CommandRegistry
\* ------------------------------------------------------------------------

\* Map.get of an absent key
NoDescriptor == [id |-> "", handler |-> "none"]

NoRequest == [id |-> "", commandId |-> "", payload |-> Undefined]

NoResponse ==
    [id |-> "", status |-> "none", data |-> Undefined,
     error |-> [code |-> "none", message |-> Message("", ""), errors |-> <<>>],
     metadata |-> NoMetadata]

\* The responses execute builds itself.
ErrorResponse(request, code, message, errors) ==
    [id |-> request.id, status |-> "error", data |-> Undefined,
     error |-> [code |-> code, message |-> message, errors |-> errors],
     metadata |-> NoMetadata]

\* { ...response, metadata: { duration, ...response.metadata } }: the
\* duration of the handler wins.
WithDurationUnlessOwn(response, duration) ==
    [response EXCEPT !.metadata =
        [@ EXCEPT !.present = TRUE,
                  !.duration = IF @ = Undefined THEN Num(duration) ELSE @]]

\* { ...response, metadata: { ...response.metadata, duration } }
WithDuration(response, duration) ==
    [response EXCEPT !.metadata =
        [@ EXCEPT !.present = TRUE, !.duration = Num(duration)]]

\* A catch that reports every failure in the same words.
ErrorMessageGeneric(error) == "Unknown error"

\* error instanceof Error ? error.message : String(error)
ErrorMessage(error) == IF error.t = "Error" THEN error.message ELSE error.v

\* A registry that runs the handler whatever validate said.
RejectsNothing(v) == FALSE

\* if (!validation.valid) return ...
Rejects(v) == ~v.valid

\* execute(request) on the registry cmds: how its promise settles. duration
\* is what Date.now() - startTime comes to.
execute(cmds, request, duration) ==
    LET descriptor == cmds[request.commandId]
        v == HandlerValidate(descriptor.handler, request.payload)
        e == HandlerExecute(descriptor.handler, request)
    IN  IF descriptor = NoDescriptor
        THEN [outcome |-> "resolved",
              resp |-> ErrorResponse(request, "COMMAND_NOT_FOUND",
                          Message("Command not found. Available commands: ",
                                  [commandId |-> request.commandId,
                                   keys |-> {id \in DOMAIN cmds :
                                               cmds[id] # NoDescriptor}]),
                          <<>>),
              validateCalls |-> 0, executeCalls |-> 0]
        ELSE IF v.threw
        THEN [outcome |-> "rejected", resp |-> NoResponse,
              validateCalls |-> 1, executeCalls |-> 0]
        ELSE IF Rejects(v)
        THEN [outcome |-> "resolved",
              resp |-> ErrorResponse(request, "VALIDATION_ERROR",
                          Message("Payload validation failed", ""), v.errors),
              validateCalls |-> 1, executeCalls |-> 0]
        ELSE [outcome |-> "resolved",
              resp |-> IF e.threw
                       THEN ErrorResponse(request, "EXECUTION_ERROR",
                               Message("Command execution failed: ",
                                       ErrorMessage(e.error)), <<>>)
                       ELSE WithDuration(e.response, duration),
              validateCalls |-> 1, executeCalls |-> 1]

\* execute(request): the call and the settling of its promise.
Execute(request, duration) ==
    /\ rpc = "idle"
    /\ rpc' = "settled"
    /\ req' = request
    /\ LET settled == execute(commands, request, duration)
       IN  /\ outcome' = settled.outcome
           /\ resp' = settled.resp
           /\ validateCalls' = settled.validateCalls
           /\ executeCalls' = settled.executeCalls
    /\ UNCHANGED <<commands, removedBy, lastBatch>>
    /\ UNCHANGED <<tvars, svars, pvars, cvars>>

\* The caller has taken the result of execute.
Settle ==
    /\ rpc = "settled"
    /\ rpc' = "idle"
    /\ req' = NoRequest
    /\ outcome' = "none"
    /\ resp' = NoResponse
    /\ validateCalls' = 0
    /\ executeCalls' = 0
    /\ UNCHANGED <<commands, removedBy, lastBatch>>
    /\ UNCHANGED <<tvars, svars, pvars, cvars>>

\* The latest call was not registerBatch.
NoBatch == [called |-> FALSE, descriptors |-> <<>>, before |-> <<>>]

\* A register that keeps the descriptor an id already has.
registerKeepsFirst(cmds, descriptor) ==
    IF cmds[descriptor.id] # NoDescriptor THEN cmds
    ELSE [cmds EXCEPT ![descriptor.id] = descriptor]

\* register(descriptor): this.commands.set(descriptor.id, descriptor); the
\* logger is optional and its calls change nothing.
register(cmds, descriptor) == [cmds EXCEPT ![descriptor.id] = descriptor]

\* registerBatch(descriptors): register, for each descriptor in order.
RECURSIVE registerBatch(_, _)
registerBatch(cmds, descriptors) ==
    IF descriptors = <<>> THEN cmds
    ELSE registerBatch(register(cmds, Head(descriptors)), Tail(descriptors))

\* register(descriptor)
Register(descriptor) ==
    /\ rpc = "idle"
    /\ commands' = register(commands, descriptor)
    /\ removedBy' = [removedBy EXCEPT ![descriptor.id] = "none"]
    /\ lastBatch' = NoBatch
    /\ UNCHANGED <<rpc, req, outcome, resp, validateCalls, executeCalls>>
    /\ UNCHANGED <<tvars, svars, pvars, cvars>>

\* registerBatch(descriptors)
RegisterBatch(descriptors) ==
    /\ rpc = "idle"
    /\ commands' = registerBatch(commands, descriptors)
    /\ removedBy' = [id \in DOMAIN removedBy |->
                        IF \E i \in DOMAIN descriptors : descriptors[i].id = id
                        THEN "none" ELSE removedBy[id]]
    /\ lastBatch' = [called |-> TRUE, descriptors |-> descriptors, before |-> commands]
    /\ UNCHANGED <<rpc, req, outcome, resp, validateCalls, executeCalls>>
    /\ UNCHANGED <<tvars, svars, pvars, cvars>>

\* registerAllHandlers(registry): the descriptors it registers, in order,
\* each with the handler object of its family. The four tools.* commands
\* are left out: their ToolsHandler is not among the sources.
AllHandlers ==
    <<[id |-> "file.create", handler |-> "fileOps"],
      [id |-> "file.delete", handler |-> "fileOps"],
      [id |-> "file.modify", handler |-> "fileOps"],
      [id |-> "file.copy", handler |-> "fileOps"],
      [id |-> "file.move", handler |-> "fileOps"],
      [id |-> "file.rename", handler |-> "fileOps"],
      [id |-> "debug.breakpoint", handler |-> "debug"],
      [id |-> "debug.watch", handler |-> "debug"],
      [id |-> "debug.logging", handler |-> "debug"],
      [id |-> "exec.run", handler |-> "exec"]>>

\* registerAllHandlers(registry)
RegisterAllHandlers ==
    /\ rpc = "idle"
    /\ commands' = registerBatch(commands, AllHandlers)
    /\ removedBy' = [id \in DOMAIN removedBy |->
                        IF \E i \in DOMAIN AllHandlers : AllHandlers[i].id = id
                        THEN "none" ELSE removedBy[id]]
    /\ lastBatch' = NoBatch
    /\ UNCHANGED <<rpc, req, outcome, resp, validateCalls, executeCalls>>
    /\ UNCHANGED <<tvars, svars, pvars, cvars>>

\* An unregister that deletes nothing.
UnregisterKeeps(id) ==
    /\ rpc = "idle"
    /\ commands[id] # NoDescriptor
    /\ removedBy' = [removedBy EXCEPT ![id] = "unregister"]
    /\ lastBatch' = NoBatch
    /\ UNCHANGED <<commands, rpc, req, outcome, resp, validateCalls, executeCalls>>
    /\ UNCHANGED <<tvars, svars, pvars, cvars>>

\* unregister(id), of a registered id
Unregister(id) ==
    /\ rpc = "idle"
    /\ commands[id] # NoDescriptor
    /\ commands' = [commands EXCEPT ![id] = NoDescriptor]
    /\ removedBy' = [removedBy EXCEPT ![id] = "unregister"]
    /\ lastBatch' = NoBatch
    /\ UNCHANGED <<rpc, req, outcome, resp, validateCalls, executeCalls>>
    /\ UNCHANGED <<tvars, svars, pvars, cvars>>

\* clear(), of a registry that holds a command
Clear ==
    /\ rpc = "idle"
    /\ \E id \in DOMAIN commands : commands[id] # NoDescriptor
    /\ commands' = [id \in DOMAIN commands |-> NoDescriptor]
    /\ removedBy' = [id \in DOMAIN commands |->
                        IF commands[id] # NoDescriptor THEN "clear" ELSE removedBy[id]]
    /\ lastBatch' = NoBatch
    /\ UNCHANGED <<rpc, req, outcome, resp, validateCalls, executeCalls>>
    /\ UNCHANGED <<tvars, svars, pvars, cvars>>

\* ---- the inputs of the registry

CommandIds == {"file.create", "custom.run", "no.such"}

\* The ids this.commands may hold a descriptor for.
RegistryIds == CommandIds \cup {AllHandlers[i].id : i \in DOMAIN AllHandlers}

\* The descriptors callers register; "no.such" is never registered.
DescriptorSet ==
    {[id |-> "file.create", handler |-> "fileOps"]}
    \cup {[id |-> "custom.run", handler |-> h] : h \in StubHandlers}

RequestIds == {"r1", "r2"}

PathChars == {"a", ".", "/", "NUL"}

Paths == UNION {[1..n -> PathChars] : n \in 0..MaxPathLen}

TypeValues == {Undefined} \cup {Str(x) : x \in FileOpTypes \cup {"bogus"}}

TargetValues == {Undefined, Num(7)} \cup {Str(x) : x \in Paths}

SourceValues ==
    {Undefined, Num(7), Str(<<>>), Str(<<"a">>), Str(<<".", ".">>), Str(<<"/">>)}

ContentValues == {Undefined, Num(7), Str(<<>>)}

FilePayloads ==
    {Null, Undefined}
    \cup {[t |-> "object", type |-> ty, targetPath |-> tp, sourcePath |-> sp,
           content |-> c] :
            ty \in TypeValues, tp \in TargetValues, sp \in SourceValues,
            c \in ContentValues}

\* The payloads sent with a command id: the stub handlers do not read theirs.
PayloadsFor(id) ==
    IF id = "file.create" THEN FilePayloads
    ELSE {Null,
          [t |-> "object", type |-> Str("create"), targetPath |-> Str(<<"a">>),
           sourcePath |-> Undefined, content |-> Str(<<>>)]}

\* A caller of execute, with any request.
ExecuteCall ==
    /\ rpc = "idle"
    /\ \E id \in CommandIds, rid \in RequestIds, d \in 0..MaxDuration :
         \E payload \in PayloadsFor(id) :
            Execute([id |-> rid, commandId |-> id, payload |-> payload], d)

NextRegistry ==
    \/ \E d \in DescriptorSet : Register(d)
    \/ \E id \in CommandIds : Unregister(id)
    \/ Clear
    \/ ExecuteCall
    \/ Settle

\* ------------------------------------------------------------------------
\* StateManager
\* ------------------------------------------------------------------------

\* private state: SidebarState = { ... }
InitialState ==
    [selectedAI |-> Null, selectedModel |-> Null, selectedFile |-> Null,
     selectedOperation |-> Null, isLoading |-> FALSE, operations |-> <<>>,
     history |-> <<>>, uiMode |-> "expanded"]

\* No value of getState() is held.
NoSnapshot ==
    [taken |-> FALSE, value |-> InitialState, opsShared |-> FALSE,
     histShared |-> FALSE]

\* No listener holds an event.
NoKept == [taken |-> FALSE, value |-> InitialState]

\* The callbacks handed to on and once: one that returns normally, one that
\* throws, one that returns a promise that rejects.
Callbacks == {"ok", "throws", "rejects"}

\* The StateManager as one value: its fields, what its callers hold of it,
\* and the history variables.
Store ==
    [state |-> state, got |-> got, listeners |-> listeners,
     nextWrapper |-> nextWrapper, microtasks |-> microtasks,
     onceCalls |-> onceCalls, notified |-> notified,
     notifiedWith |-> notifiedWith, unhandled |-> unhandled,
     lastCall |-> lastCall, nextOpId |-> nextOpId, nextEntryId |-> nextEntryId,
     kept |-> kept]

\* The StateManager after a method has run; s is computed once.
Commit(s) ==
    \E committed \in {s} :
        /\ state' = committed.state
        /\ got' = committed.got
        /\ listeners' = committed.listeners
        /\ nextWrapper' = committed.nextWrapper
        /\ microtasks' = committed.microtasks
        /\ onceCalls' = committed.onceCalls
        /\ notified' = committed.notified
        /\ notifiedWith' = committed.notifiedWith
        /\ unhandled' = committed.unhandled
        /\ lastCall' = committed.lastCall
        /\ nextOpId' = committed.nextOpId
        /\ nextEntryId' = committed.nextEntryId
        /\ kept' = committed.kept

\* The promise a listener returns rejects: a callback registered with on
\* that returns a rejecting promise, or a wrapper of once (an async
\* function) whose callback throws or rejects.
ListenerRejects(l) ==
    IF l.wrapper = 0 THEN l.cb = "rejects" ELSE l.cb \in {"throws", "rejects"}

\* An emit without the try/catch around the listener: the first listener
\* that throws ends the map.
EmitInvokedUntilThrow(ls) ==
    LET throwers == {i \in 1..Len(ls) : ls[i].wrapper = 0 /\ ls[i].cb = "throws"}
    IN  IF throwers = {} THEN ls
        ELSE SubSeq(ls, 1, CHOOSE i \in throwers : \A j \in throwers : i <= j)

\* this.changeListeners.filter(l => l !== callback)
RECURSIVE WithoutListener(_, _)
WithoutListener(ls, l) ==
    IF ls = <<>> THEN <<>>
    ELSE IF Head(ls) = l THEN WithoutListener(Tail(ls), l)
    ELSE <<Head(ls)>> \o WithoutListener(Tail(ls), l)

\* Callbacks that call back into the manager while emit invokes them: one
\* that subscribes the callback "ok" with on, and one that calls the
\* function on returned for "ok".
Reentrant == {"subscribes", "unsubscribes"}

Subscribed == [cb |-> "ok", wrapper |-> 0]

\* this.changeListeners after the listener l has run: on pushes onto the
\* array, the function on returned assigns a filtered copy to the field.
FieldAfter(field, l) ==
    CASE l.cb = "subscribes" -> Append(field, Subscribed)
      [] l.cb = "unsubscribes" -> WithoutListener(field, Subscribed)
      [] OTHER -> field

\* A loop that reads this.changeListeners again at every step:
\* for (let i = 0; i < this.changeListeners.length; i++) ...
RECURSIVE MapLiveFrom(_, _)
MapLiveFrom(i, field) ==
    IF i > Len(field) THEN [invoked |-> <<>>, listeners |-> field]
    ELSE LET rest == MapLiveFrom(i + 1, FieldAfter(field, field[i]))
         IN  [invoked |-> <<field[i]>> \o rest.invoked, listeners |-> rest.listeners]

MapListenersLive(ls) == MapLiveFrom(1, ls)

\* Array.prototype.map from index i: it visits the indices below the length
\* the array had when map was called, and reads each element of the array
\* it was called on when it gets there. That array is the array of the
\* field (same) until a listener assigns another to the field.
RECURSIVE MapFrom(_, _, _, _, _)
MapFrom(i, len, array, field, same) ==
    IF i > len THEN [invoked |-> <<>>, listeners |-> field]
    ELSE LET l == array[i]
             field1 == FieldAfter(field, l)
             array1 == IF same /\ l.cb = "subscribes" THEN field1 ELSE array
             rest == MapFrom(i + 1, len, array1, field1,
                             same /\ l.cb # "unsubscribes")
         IN  [invoked |-> <<l>> \o rest.invoked, listeners |-> rest.listeners]

\* this.changeListeners.map(listener => ...) on the list ls: the listeners
\* it invokes, in order, and the list of the field afterwards.
MapListeners(ls) == MapFrom(1, Len(ls), ls, ls, TRUE)

\* this.changeListeners.map(listener => ...): the listeners emit invokes
EmitInvoked(ls) == MapListeners(ls).invoked

\* emit(event), up to its await: every listener is invoked in the caller's
\* synchronous run. A wrapper of once calls its callback and, when the
\* callback's result is fulfilled, goes on to unsubscribe in a later
\* microtask. A rejecting listener makes Promise.all, and so the promise of
\* emit, reject; no caller of emit awaits or catches that promise. The
\* manager the method runs on is bound once, as this.
emit(s, event) ==
    CHOOSE emitted \in
        {LET invoked == EmitInvoked(this.listeners)
             Ran(n) == \E i \in 1..Len(invoked) : invoked[i].wrapper = n
             Resumes(n) ==
                 \E i \in 1..Len(invoked) :
                     invoked[i].wrapper = n /\ invoked[i].cb = "ok"
         IN  [this EXCEPT
                 !.listeners = MapListeners(this.listeners).listeners,
                 !.notified = invoked,
                 !.notifiedWith = event,
                 !.kept = IF \E i \in 1..Len(invoked) : invoked[i].cb = "keeps"
                          THEN [taken |-> TRUE, value |-> event]
                          ELSE this.kept,
                 !.onceCalls = [n \in DOMAIN this.onceCalls |->
                                   IF Ran(n) THEN Min(this.onceCalls[n] + 1, MaxCalls)
                                   ELSE this.onceCalls[n]],
                 !.microtasks =
                     this.microtasks \cup {n \in DOMAIN this.onceCalls : Resumes(n)},
                 !.unhandled =
                     (this.unhandled
                      \/ \E i \in 1..Len(invoked) : ListenerRejects(invoked[i]))]
          : this \in {s}} : TRUE

\* The methods that assign a new object to this.state; the others assign
\* to its fields.
Reassigning == {"setState", "reset"}

\* The event a listener kept, after a method has run: emit(this.state)
\* handed it this.state itself, so it has every field the method assigned.
\* It is followed no longer once this.state is another object.
KeptAfter(k, call, newState) ==
    IF ~k.taken THEN k
    ELSE IF call \in Reassigning THEN NoKept
    ELSE [k EXCEPT !.value = newState]

\* A method that assigns to this.state and then calls this.emit(this.state).
Emitting(s, call, newState) ==
    emit([s EXCEPT !.state = newState, !.lastCall = call,
                   !.kept = KeptAfter(@, call, newState)],
         newState)

\* A method that calls no emit: it invokes no listener.
Silent(s, call) == [s EXCEPT !.lastCall = call, !.notified = <<>>]

\* getState(): { ...this.state }. The copy has its own top-level fields and
\* the same two arrays as the state.
getState(s) ==
    Silent([s EXCEPT !.got = [taken |-> TRUE, value |-> s.state,
                              opsShared |-> TRUE, histShared |-> TRUE]],
           "getState")

\* What the holder of a getState() value sees after the store has replaced
\* (TRUE) or kept (FALSE) each of its arrays.
Detached(g, ops, hist) ==
    [g EXCEPT !.opsShared = @ /\ ~ops, !.histShared = @ /\ ~hist]

\* setState(partial): this.state = { ...this.state, ...partial }
setState(s, partial) ==
    LET Pick(f) == IF f \in DOMAIN partial THEN partial[f] ELSE s.state[f]
        merged ==
            [selectedAI |-> Pick("selectedAI"),
             selectedModel |-> Pick("selectedModel"),
             selectedFile |-> Pick("selectedFile"),
             selectedOperation |-> Pick("selectedOperation"),
             isLoading |-> Pick("isLoading"),
             operations |-> Pick("operations"),
             history |-> Pick("history"),
             uiMode |-> Pick("uiMode")]
    IN  Emitting([s EXCEPT !.got = Detached(@, "operations" \in DOMAIN partial,
                                             "history" \in DOMAIN partial)],
                 "setState", merged)

\* A setSelectedAI that keeps the selected model.
setSelectedAIKeepsModel(s, aiId) ==
    Emitting(s, "setSelectedAI", [s.state EXCEPT !.selectedAI = aiId])

\* setSelectedAI(aiId)
setSelectedAI(s, aiId) ==
    Emitting(s, "setSelectedAI",
             [s.state EXCEPT !.selectedAI = aiId, !.selectedModel = Null])

\* setSelectedModel(modelId)
setSelectedModel(s, modelId) ==
    Emitting(s, "setSelectedModel", [s.state EXCEPT !.selectedModel = modelId])

\* setSelectedFile(filePath)
setSelectedFile(s, filePath) ==
    Emitting(s, "setSelectedFile", [s.state EXCEPT !.selectedFile = filePath])

\* setSelectedOperation(operationId)
setSelectedOperation(s, operationId) ==
    Emitting(s, "setSelectedOperation",
             [s.state EXCEPT !.selectedOperation = operationId])

\* setLoading(loading)
setLoading(s, loading) ==
    Emitting(s, "setLoading", [s.state EXCEPT !.isLoading = loading])

\* addOperation(operation): the new id is s.nextOpId. push changes the array
\* in place, so a holder of the same array sees the new element.
addOperation(s, operation) ==
    LET fullOperation ==
            [id |-> s.nextOpId, commandId |-> operation.commandId,
             status |-> operation.status]
    IN  Emitting([s EXCEPT
                    !.nextOpId = @ + 1,
                    !.got = IF @.taken /\ @.opsShared
                            THEN [@ EXCEPT !.value.operations =
                                              Append(@, fullOperation)]
                            ELSE @],
                 "addOperation",
                 [s.state EXCEPT !.operations = Append(@, fullOperation)])

\* Object.assign(operation, partial) on every element of ops with the id:
\* the element objects are shared by all the arrays that hold them.
Assigned(ops, id, partial) ==
    [i \in 1..Len(ops) |->
        IF ops[i].id = id THEN [ops[i] EXCEPT !.status = partial.status]
        ELSE ops[i]]

HasOperation(ops, id) == \E i \in 1..Len(ops) : ops[i].id = id

\* Object.assign(operation, partial), for the fields an operation has here.
ObjectAssign(operation, partial) ==
    LET withStatus ==
            IF "status" \in DOMAIN partial
            THEN [operation EXCEPT !.status = partial.status] ELSE operation
    IN  IF "commandId" \in DOMAIN partial
        THEN [withStatus EXCEPT !.commandId = partial.commandId] ELSE withStatus

\* The list after Object.assign on what find returns: the first operation
\* with the id.
AssignedFirst(ops, id, partial) ==
    LET found == CHOOSE i \in 1..Len(ops) :
                    ops[i].id = id /\ \A j \in 1..(i - 1) : ops[j].id # id
    IN  IF HasOperation(ops, id)
        THEN [ops EXCEPT ![found] = ObjectAssign(@, partial)]
        ELSE ops

\* An updateOperation that emits whether or not it finds the operation.
updateOperationAlwaysEmits(s, id, partial) ==
    Emitting([s EXCEPT !.got.value.operations = AssignedFirst(@, id, partial)],
             "updateOperation",
             [s.state EXCEPT !.operations = AssignedFirst(@, id, partial)])

\* updateOperation(id, partial): nothing, and no emit, when no operation has
\* the id.
updateOperation(s, id, partial) ==
    IF HasOperation(s.state.operations, id)
    THEN Emitting([s EXCEPT !.got.value.operations = AssignedFirst(@, id, partial)],
                  "updateOperation",
                  [s.state EXCEPT !.operations = AssignedFirst(@, id, partial)])
    ELSE Silent(s, "updateOperation")

\* ops.filter(op => op.id !== id)
RECURSIVE WithoutId(_, _)
WithoutId(ops, id) ==
    IF ops = <<>> THEN <<>>
    ELSE IF Head(ops).id = id THEN WithoutId(Tail(ops), id)
    ELSE <<Head(ops)>> \o WithoutId(Tail(ops), id)

\* removeOperation(id): the filter makes a new array.
removeOperation(s, id) ==
    Emitting([s EXCEPT !.got = Detached(@, TRUE, FALSE)],
             "removeOperation",
             [s.state EXCEPT !.operations = WithoutId(@, id)])

\* [fullEntry, ...history].slice(0, cap)
Slice(h, cap) == SubSeq(h, 1, Min(Len(h), cap))

\* An addToHistory that never drops an entry.
HistoryAfterAddUncapped(h, fullEntry) == <<fullEntry>> \o h

\* [fullEntry, ...this.state.history].slice(0, 50)
HistoryAfterAdd(h, fullEntry) == Slice(<<fullEntry>> \o h, HistoryCap)

\* addToHistory(entry): the new id is s.nextEntryId.
addToHistory(s, entry) ==
    LET fullEntry ==
            [id |-> s.nextEntryId, commandId |-> entry.commandId,
             status |-> entry.status]
    IN  Emitting([s EXCEPT !.nextEntryId = @ + 1,
                           !.got = Detached(@, FALSE, TRUE)],
                 "addToHistory",
                 [s.state EXCEPT !.history = HistoryAfterAdd(@, fullEntry)])

\* clearHistory()
clearHistory(s) ==
    Emitting([s EXCEPT !.got = Detached(@, FALSE, TRUE)], "clearHistory",
             [s.state EXCEPT !.history = <<>>])

\* toggleUIMode()
toggleUIMode(s) ==
    Emitting(s, "toggleUIMode",
             [s.state EXCEPT !.uiMode =
                 IF @ = "expanded" THEN "compact" ELSE "expanded"])

\* reset()
reset(s) ==
    Emitting([s EXCEPT !.got = Detached(@, TRUE, TRUE)], "reset", InitialState)

\* on(callback): this.changeListeners.push(callback)
on(s, callback) ==
    Silent([s EXCEPT !.listeners = Append(@, [cb |-> callback, wrapper |-> 0])],
           "on")

\* The function on(callback) returned, called.
unsubscribe(s, callback) ==
    Silent([s EXCEPT !.listeners =
                        WithoutListener(@, [cb |-> callback, wrapper |-> 0])],
           "unsubscribe")

\* once(callback): on(async state => { await callback(state); unsubscribe(); })
\* The wrapper is a new function, s.nextWrapper.
once(s, callback) ==
    Silent([s EXCEPT !.listeners =
                        Append(@, [cb |-> callback, wrapper |-> s.nextWrapper]),
                     !.nextWrapper = @ + 1],
           "once")

\* The wrapper n of once after its await: unsubscribe()
onceResume(s, n) ==
    [s EXCEPT !.listeners = WithoutListener(@, [cb |-> "ok", wrapper |-> n]),
              !.microtasks = @ \ {n}]

\* clearListeners()
clearListeners(s) == Silent([s EXCEPT !.listeners = <<>>], "clearListeners")

\* ---- a listener changes the event it kept

\* event.isLoading = loading, by the listener that kept the event: the
\* event is this.state.
setKeptLoading(s, loading) ==
    [s EXCEPT !.kept.value.isLoading = loading, !.state.isLoading = loading]

\* ---- the holder of a value of getState() changes that value

\* returned.operations.push(operation)
pushReturnedOperation(s, operation) ==
    [s EXCEPT !.got.value.operations = Append(@, operation),
              !.state.operations =
                  IF s.got.opsShared THEN Append(@, operation) ELSE @]

\* returned.history.pop()
popReturnedHistory(s) ==
    [s EXCEPT !.got.value.history = SubSeq(@, 1, Len(@) - 1),
              !.state.history =
                  IF s.got.histShared THEN SubSeq(@, 1, Len(@) - 1) ELSE @]

\* returned.operations[i].status = status
editReturnedOperation(s, i, status) ==
    LET id == s.got.value.operations[i].id
    IN  [s EXCEPT !.got.value.operations = Assigned(@, id, [status |-> status]),
                  !.state.operations = Assigned(@, id, [status |-> status])]

\* returned.isLoading = loading
setReturnedLoading(s, loading) == [s EXCEPT !.got.value.isLoading = loading]

\* ---- the calls of the StateManager's methods

GetState == Commit(getState(Store)) /\ UNCHANGED nonStore

SetState(partial) == Commit(setState(Store, partial)) /\ UNCHANGED nonStore

SetSelectedAI(aiId) == Commit(setSelectedAI(Store, aiId)) /\ UNCHANGED nonStore

SetSelectedModel(modelId) ==
    Commit(setSelectedModel(Store, modelId)) /\ UNCHANGED nonStore

SetSelectedFile(filePath) ==
    Commit(setSelectedFile(Store, filePath)) /\ UNCHANGED nonStore

SetSelectedOperation(operationId) ==
    Commit(setSelectedOperation(Store, operationId)) /\ UNCHANGED nonStore

SetLoading(loading) == Commit(setLoading(Store, loading)) /\ UNCHANGED nonStore

AddOperation(operation) ==
    /\ nextOpId <= MaxOpIds
    /\ Len(state.operations) < MaxOps
    /\ Commit(addOperation(Store, operation))
    /\ UNCHANGED nonStore

UpdateOperation(id, partial) ==
    Commit(updateOperation(Store, id, partial)) /\ UNCHANGED nonStore

RemoveOperation(id) == Commit(removeOperation(Store, id)) /\ UNCHANGED nonStore

AddToHistory(entry) ==
    /\ nextEntryId <= MaxEntries
    /\ Commit(addToHistory(Store, entry))
    /\ UNCHANGED nonStore

ClearHistory == Commit(clearHistory(Store)) /\ UNCHANGED nonStore

ToggleUIMode == Commit(toggleUIMode(Store)) /\ UNCHANGED nonStore

Reset == Commit(reset(Store)) /\ UNCHANGED nonStore

On(callback) ==
    /\ Len(listeners) < MaxListeners
    /\ Commit(on(Store, callback))
    /\ UNCHANGED nonStore

\* unsubscribe(), of a callback that is subscribed
Unsubscribe(callback) ==
    /\ \E i \in 1..Len(listeners) : listeners[i] = [cb |-> callback, wrapper |-> 0]
    /\ Commit(unsubscribe(Store, callback))
    /\ UNCHANGED nonStore

Once(callback) ==
    /\ Len(listeners) < MaxListeners
    /\ nextWrapper <= MaxOnce
    /\ Commit(once(Store, callback))
    /\ UNCHANGED nonStore

\* The microtask that resumes wrapper n after its await.
OnceResume(n) ==
    /\ n \in microtasks
    /\ Commit(onceResume(Store, n))
    /\ UNCHANGED nonStore

\* clearListeners(), of a manager that has a listener
ClearListeners ==
    /\ listeners # <<>>
    /\ Commit(clearListeners(Store))
    /\ UNCHANGED nonStore

SetKeptLoading(loading) ==
    /\ kept.taken
    /\ Commit(setKeptLoading(Store, loading))
    /\ UNCHANGED nonStore

PushReturnedOperation(operation) ==
    /\ got.taken
    /\ Len(got.value.operations) < MaxOps
    /\ Commit(pushReturnedOperation(Store, operation))
    /\ UNCHANGED nonStore

PopReturnedHistory ==
    /\ got.taken
    /\ got.value.history # <<>>
    /\ Commit(popReturnedHistory(Store))
    /\ UNCHANGED nonStore

EditReturnedOperation(i, status) ==
    /\ got.taken
    /\ i \in 1..Len(got.value.operations)
    /\ Commit(editReturnedOperation(Store, i, status))
    /\ UNCHANGED nonStore

SetReturnedLoading(loading) ==
    /\ got.taken
    /\ Commit(setReturnedLoading(Store, loading))
    /\ UNCHANGED nonStore

\* ------------------------------------------------------------------------
\* CodeMateSidebarProvider
\* ------------------------------------------------------------------------

\* commandId.startsWith('file.') and commandId.split('.') throw a TypeError
\* on a commandId that is no string.
CommandIdThrows(commandId) == commandId.t # "string"

\* commandId.split('.')
Split(id) ==
    CASE id = "file.create" -> <<"file", "create">>
      [] id = "file.delete" -> <<"file", "delete">>
      [] id = "file.modify" -> <<"file", "modify">>
      [] id = "file.copy" -> <<"file", "copy">>
      [] id = "file.move" -> <<"file", "move">>
      [] id = "file.rename" -> <<"file", "rename">>
      [] id = "debug.breakpoint" -> <<"debug", "breakpoint">>
      [] id = "debug.watch" -> <<"debug", "watch">>
      [] id = "debug.logging" -> <<"debug", "logging">>
      [] id = "tools.format" -> <<"tools", "format">>
      [] id = "exec.run" -> <<"exec", "run">>
      [] id = "custom.run" -> <<"custom", "run">>
      [] OTHER -> <<"no", "such">>

\* buildCommandPayload(commandId, filePath): type is commandId.split('.')[1],
\* and every path field is filePath || ''. The properties a handler reads
\* and the payload has not are undefined.
buildCommandPayload(commandId, filePath) ==
    LET type == Split(commandId)[2]
        path == IF Falsy(filePath, <<>>) THEN Str(<<>>) ELSE filePath
    IN  CASE Split(commandId)[1] = "file" ->
                [t |-> "object", type |-> Str(type), targetPath |-> path,
                 sourcePath |-> Undefined, content |-> Str(<<>>)]
          [] Split(commandId)[1] = "debug" ->
                [t |-> "object", type |-> Str(type), filePath |-> path,
                 lineNumber |-> Num(1), expression |-> Undefined,
                 logLevel |-> Undefined]
          [] Split(commandId)[1] = "tools" ->
                [t |-> "object", type |-> Str(type), filePath |-> path,
                 tool |-> Str(type)]
          [] Split(commandId)[1] = "exec" ->
                [t |-> "object", type |-> Str("run"), filePath |-> path]
          [] OTHER ->
                [t |-> "object", type |-> Undefined, targetPath |-> Undefined,
                 sourcePath |-> Undefined, content |-> Undefined]

\* An executeCommand that arms no timer.
ArmedNever(timers_, operationId) == timers_

\* setTimeout(() => { this.stateManager.removeOperation(operationId); }, 3000)
Armed(timers_, operationId) ==
    timers_ \cup {[operationId |-> operationId, delay |-> GracePeriod]}

\* response.status === 'success' ? 'completed' : 'failed'
OperationStatus(status) == IF status = "success" THEN "completed" ELSE "failed"

\* response.status === 'success' ? 'success' : 'error'
EntryStatus(status) == IF status = "success" THEN "success" ELSE "error"

\* updateWebView(state), the listener the constructor subscribes: the
\* message it posts for the state a method of the StateManager emits.
updateWebView(s) == <<[type |-> "stateUpdate", payload |-> s.state]>>

\* The error message of a catch.
ErrorPosted == <<[type |-> "error"]>>

\* The commandResponse message; operationId is no part of it, it names the
\* call of executeCommand that posts it.
ResponsePosted(run) ==
    <<[type |-> "commandResponse", status |-> run.status,
       operationId |-> run.operationId]>>

\* An executeCommand that adds the history entry before it sets the status
\* of the operation.
AfterResponseEntryFirst(s, run) ==
    LET logged ==
            addToHistory(s, [commandId |-> run.commandId,
                             status |-> EntryStatus(run.status)])
        updated ==
            updateOperation(logged, run.operationId,
                            [status |-> OperationStatus(run.status)])
    IN  [store |-> setLoading(updated, FALSE),
         posted |-> updateWebView(logged)
                    \o (IF HasOperation(s.state.operations, run.operationId)
                        THEN updateWebView(updated) ELSE <<>>)
                    \o ResponsePosted(run)
                    \o updateWebView(setLoading(updated, FALSE))]

\* executeCommand from the response of the registry to its end:
\* updateOperation, addToHistory, postMessage, and setLoading(false) in the
\* finally; the StateManager emits in each of its calls, to updateWebView.
AfterResponse(s, run) ==
    LET updated ==
            updateOperation(s, run.operationId,
                            [status |-> OperationStatus(run.status)])
        logged ==
            addToHistory(updated, [commandId |-> run.commandId,
                                   status |-> EntryStatus(run.status)])
    IN  [store |-> setLoading(logged, FALSE),
         posted |-> (IF HasOperation(s.state.operations, run.operationId)
                     THEN updateWebView(updated) ELSE <<>>)
                    \o updateWebView(logged)
                    \o ResponsePosted(run)
                    \o updateWebView(setLoading(logged, FALSE))]

\* The catch and the finally of executeCommand.
Caught(s) == setLoading(setLoading(s, FALSE), FALSE)

\* handleWebViewMessage({type: 'executeCommand', payload}), up to the await
\* of executeCommand. A payload that cannot be destructured throws before
\* the try, and the catch of handleWebViewMessage posts the error; a
\* commandId that is no string throws in getCommandCategory, inside the try.
ExecuteCommand(payload, duration) ==
    /\ nextOpId <= MaxCommands
    /\ IF payload = Null
       THEN /\ lastPosted' = "error"
            /\ posted' = ErrorPosted
            /\ UNCHANGED <<svars, runs, removeTimers>>
       ELSE LET started ==
                    addOperation(setLoading(Store, TRUE),
                                 [commandId |-> payload.commandId,
                                  status |-> "executing"])
                request ==
                    [id |-> "r1", commandId |-> payload.commandId.v,
                     payload |-> buildCommandPayload(payload.commandId.v,
                                                     payload.file)]
                settled == execute(commands, request, duration)
            IN  IF CommandIdThrows(payload.commandId)
                THEN /\ Commit(Caught(started))
                     /\ lastPosted' = "error"
                     /\ posted' = updateWebView(setLoading(Store, TRUE))
                                   \o updateWebView(started)
                                   \o ErrorPosted
                                   \o updateWebView(setLoading(started, FALSE))
                                   \o updateWebView(Caught(started))
                     /\ UNCHANGED <<runs, removeTimers>>
                ELSE /\ Commit(started)
                     /\ runs' = runs \cup
                            {[operationId |-> nextOpId,
                              commandId |-> payload.commandId,
                              outcome |-> settled.outcome,
                              status |-> settled.resp.status]}
                     /\ posted' = updateWebView(setLoading(Store, TRUE))
                                   \o updateWebView(started)
                     /\ UNCHANGED <<removeTimers, lastPosted>>
    /\ UNCHANGED <<tvars, rvars, cvars>>

\* executeCommand after its await: the response of the registry, or the
\* rejection of its promise.
ExecuteCommandResume(run) ==
    /\ run \in runs
    /\ runs' = runs \ {run}
    /\ IF run.outcome = "rejected"
       THEN /\ Commit(Caught(Store))
            /\ lastPosted' = "error"
            /\ posted' = ErrorPosted
                          \o updateWebView(setLoading(Store, FALSE))
                          \o updateWebView(Caught(Store))
            /\ UNCHANGED removeTimers
       ELSE LET after == AfterResponse(Store, run)
            IN  /\ Commit(after.store)
                /\ lastPosted' = "commandResponse"
                /\ posted' = after.posted
                /\ removeTimers' = Armed(removeTimers, run.operationId)
    /\ UNCHANGED <<tvars, rvars, cvars>>

\* The timer of executeCommand fires.
RemoveAfterDelay(timer) ==
    /\ timer \in removeTimers
    /\ removeTimers' = removeTimers \ {timer}
    /\ Commit(removeOperation(Store, timer.operationId))
    /\ posted' = updateWebView(removeOperation(Store, timer.operationId))
    /\ UNCHANGED <<runs, lastPosted>>
    /\ UNCHANGED <<tvars, rvars, cvars>>

\* handleWebViewMessage({type: 'clearHistory'})
MessageClearHistory ==
    /\ Commit(clearHistory(Store))
    /\ posted' = updateWebView(clearHistory(Store))
    /\ UNCHANGED <<runs, removeTimers, lastPosted>>
    /\ UNCHANGED <<tvars, rvars, cvars>>

\* ------------------------------------------------------------------------
\* ProtocolHandler: serializeMessage and parseMessage
\* ------------------------------------------------------------------------

\* The numbers JSON has no literal for.
NaN == [t |-> "NaN"]

Infinity == [t |-> "Infinity"]

\* An object: its own properties. A string is a TLA+ string here.
Obj(fields) == [t |-> "object", fields |-> fields]

\* typeof x
TypeOf(x) ==
    CASE x.t \in {"NaN", "Infinity"} -> "number"
      [] x.t = "null" -> "object"
      [] OTHER -> x.t

\* !!x
Truthy(x) ==
    CASE x.t \in {"undefined", "null", "NaN"} -> FALSE
      [] x.t = "number" -> x.v # 0
      [] x.t = "string" -> x.v # ""
      [] x.t = "boolean" -> x.v
      [] OTHER -> TRUE

\* obj[k]: undefined for a property the object does not have, and for any
\* property of a number, a string or a boolean.
Read(obj, k) ==
    IF obj.t = "object" /\ k \in DOMAIN obj.fields THEN obj.fields[k] ELSE Undefined

\* A JSON text, by its grammar: a literal, an object with its members, or
\* a text that is no JSON.
JsonNull == [j |-> "null"]

JsonNumber(v) == [j |-> "number", v |-> v]

JsonString(v) == [j |-> "string", v |-> v]

JsonBool(v) == [j |-> "boolean", v |-> v]

JsonObject(members) == [j |-> "object", members |-> members]

NotJson == [j |-> "invalid"]

\* JSON.stringify(x) for a value that is not undefined: a number that is
\* not finite becomes null, a property whose value is undefined is left
\* out.
RECURSIVE JsonStringify(_)
JsonStringify(x) ==
    CASE x.t \in {"null", "NaN", "Infinity"} -> JsonNull
      [] x.t = "number" -> JsonNumber(x.v)
      [] x.t = "string" -> JsonString(x.v)
      [] x.t = "boolean" -> JsonBool(x.v)
      [] x.t = "object" ->
            JsonObject([k \in {n \in DOMAIN x.fields : x.fields[n] # Undefined} |->
                           JsonStringify(x.fields[k])])

\* JSON.parse(text) for a text that is JSON.
RECURSIVE JsonParse(_)
JsonParse(text) ==
    CASE text.j = "null" -> Null
      [] text.j = "number" -> Num(text.v)
      [] text.j = "string" -> Str(text.v)
      [] text.j = "boolean" -> Bool(text.v)
      [] text.j = "object" ->
            Obj([k \in DOMAIN text.members |-> JsonParse(text.members[k])])

\* serializeMessage(msg)
serializeMessage(msg) == JsonStringify(msg)

\* A check that accepts any version.
isValidMessageAnyVersion(msg) ==
    /\ Truthy(msg)
    /\ TypeOf(msg) = "object"
    /\ Truthy(Read(msg, "type"))
    /\ Truthy(Read(msg, "id"))
    /\ TypeOf(Read(msg, "timestamp")) = "number"
    /\ Truthy(Read(msg, "channel"))

\* isValidMessage(msg)
isValidMessage(msg) ==
    /\ Truthy(msg)
    /\ TypeOf(msg) = "object"
    /\ Read(msg, "version").t = "string"
    /\ Read(msg, "version").v = "1.0"
    /\ Truthy(Read(msg, "type"))
    /\ Truthy(Read(msg, "id"))
    /\ TypeOf(Read(msg, "timestamp")) = "number"
    /\ Truthy(Read(msg, "channel"))

\* What parseMessage does: it returns an envelope, or throws an Error.
ParseReturned(msg) ==
    [done |-> TRUE, ok |-> TRUE, envelope |-> msg, error |-> Message("", ""),
     name |-> ""]

\* throw new Error(`Failed to parse message: ${error.message}`): name is
\* the name of the class of the object thrown.
ParseThrew(inner) ==
    [done |-> TRUE, ok |-> FALSE, envelope |-> Undefined,
     error |-> Message("Failed to parse message: ", inner), name |-> "Error"]

NotParsed ==
    [done |-> FALSE, ok |-> FALSE, envelope |-> Undefined, error |-> Message("", ""),
     name |-> ""]

\* validateAndNormalize(msg): the message itself, or a throw.
validateAndNormalize(msg) ==
    IF ~isValidMessage(msg)
    THEN [threw |-> TRUE, value |-> Undefined,
          message |-> "Invalid message format: missing required fields or invalid version"]
    ELSE [threw |-> FALSE, value |-> msg, message |-> ""]

\* parseMessage(data): the catch wraps the SyntaxError of JSON.parse and
\* the Error of validateAndNormalize alike.
parseMessage(data) ==
    IF data.j = "invalid" THEN ParseThrew("SyntaxError")
    ELSE LET checked == validateAndNormalize(JsonParse(data))
         IN  IF checked.threw THEN ParseThrew(checked.message)
             ELSE ParseReturned(checked.value)

NoEnvelope == [t |-> "none"]

NoText == [j |-> "none"]

\* A caller serializes an envelope for the socket.
SerializeMessage(msg) ==
    /\ sent' = msg
    /\ wire' = serializeMessage(msg)
    /\ parsed' = NotParsed
    /\ UNCHANGED <<tvars, rvars, svars, pvars, built, nextUuid>>

\* A text arrives from the socket.
Receive(text) ==
    /\ sent' = NoEnvelope
    /\ wire' = text
    /\ parsed' = NotParsed
    /\ UNCHANGED <<tvars, rvars, svars, pvars, built, nextUuid>>

\* The receiver parses the text.
ParseMessage ==
    /\ wire # NoText
    /\ ~parsed.done
    /\ parsed' = parseMessage(wire)
    /\ UNCHANGED <<tvars, rvars, svars, pvars, sent, wire, built, nextUuid>>

\* ------------------------------------------------------------------------
\* ProtocolHandler: the envelopes it creates
\* ------------------------------------------------------------------------

\* generateUUID(): the n-th id it makes; no two calls give the same id and
\* none is the empty string.
generateUUID(n) == Str("uuid-" \o ToString(n))

\* { version: '1.0', type, id, timestamp, channel, payload }
Envelope(type, id, now, channel, payload) ==
    Obj([version |-> Str("1.0"), type |-> Str(type), id |-> id,
         timestamp |-> Num(now), channel |-> Str(channel), payload |-> payload])

\* createRequest(operationRequest, requiresACK), with the id generateUUID
\* gives and the time Date.now() gives.
createRequest(operationRequest, requiresACK, uuid, now) ==
    Obj([version |-> Str("1.0"), type |-> Str("request"), id |-> uuid,
         timestamp |-> Num(now), channel |-> Str("command"),
         payload |-> operationRequest, requiresACK |-> Bool(requiresACK)])

\* createResponse(operationResponse, requestId)
createResponse(operationResponse, requestId, now) ==
    Envelope("response", requestId, now, "command", operationResponse)

\* A createError that always generates the id of its envelope.
createErrorOwnId(code, message, requestId, details, uuid, now) ==
    Envelope("error", uuid, now, "error",
             Obj([code |-> code, message |-> message, details |-> details]))

\* createError(code, message, requestId, details): id is
\* requestId || generateUUID().
createError(code, message, requestId, details, uuid, now) ==
    Envelope("error", IF Truthy(requestId) THEN requestId ELSE uuid, now, "error",
             Obj([code |-> code, message |-> message, details |-> details]))

\* createPing()
createPing(uuid, now) == Envelope("ping", uuid, now, "heartbeat", Null)

\* A createPong that echoes the id of the ping.
createPongEchoes(pingId, uuid, now) ==
    Envelope("pong", pingId, now, "heartbeat", Null)

\* createPong(pingId): pingId is not used.
createPong(pingId, uuid, now) == Envelope("pong", uuid, now, "heartbeat", Null)

\* createACK(acknowledgedId)
createACK(acknowledgedId, uuid, now) ==
    Envelope("ack", uuid, now, "ack", Obj([acknowledgedId |-> acknowledgedId]))

NoBuilt ==
    [by |-> "none", given |-> Undefined, generated |-> Undefined,
     envelope |-> Undefined]

\* What a create* method returned: the id it was handed, the id
\* generateUUID gave it if it called generateUUID, and its envelope.
Creates(by, given, generated, envelope) ==
    /\ built' = [by |-> by, given |-> given, generated |-> generated,
                 envelope |-> envelope]
    /\ nextUuid' = IF generated = Undefined THEN nextUuid ELSE nextUuid + 1
    /\ UNCHANGED <<sent, wire, parsed>>

CreateRequest(operationRequest, requiresACK, now) ==
    /\ nextUuid <= MaxUuids
    /\ Creates("createRequest", Undefined, generateUUID(nextUuid),
                createRequest(operationRequest, requiresACK,
                              generateUUID(nextUuid), now))
    /\ UNCHANGED <<tvars, rvars, svars, pvars>>

CreateResponse(operationResponse, requestId, now) ==
    /\ Creates("createResponse", requestId, Undefined,
                createResponse(operationResponse, requestId, now))
    /\ UNCHANGED <<tvars, rvars, svars, pvars>>

\* generateUUID() is evaluated when requestId is falsy.
CreateError(code, message, requestId, details, now) ==
    /\ nextUuid <= MaxUuids
    /\ Creates("createError", requestId,
                IF Truthy(requestId) THEN Undefined ELSE generateUUID(nextUuid),
                createError(code, message, requestId, details,
                            generateUUID(nextUuid), now))
    /\ UNCHANGED <<tvars, rvars, svars, pvars>>

CreatePing(now) ==
    /\ nextUuid <= MaxUuids
    /\ Creates("createPing", Undefined, generateUUID(nextUuid),
                createPing(generateUUID(nextUuid), now))
    /\ UNCHANGED <<tvars, rvars, svars, pvars>>

CreatePong(pingId, now) ==
    /\ nextUuid <= MaxUuids
    /\ Creates("createPong", pingId, generateUUID(nextUuid),
                createPong(pingId, generateUUID(nextUuid), now))
    /\ UNCHANGED <<tvars, rvars, svars, pvars>>

CreateACK(acknowledgedId, now) ==
    /\ nextUuid <= MaxUuids
    /\ Creates("createACK", acknowledgedId, generateUUID(nextUuid),
                createACK(acknowledgedId, generateUUID(nextUuid), now))
    /\ UNCHANGED <<tvars, rvars, svars, pvars>>

\* The state after construction of the client, of the registry, of the
\* state manager and of the sidebar provider.
Init ==
    /\ ws = 0
    /\ reconnectDelay = FloorDelay
    /\ shouldReconnect = TRUE
    /\ connecting = FALSE
    /\ sockState = [i \in Slots |-> "free"]
    /\ timers = 0
    /\ lastInfo = "none"
    /\ sendPc = "idle"
    /\ transmitted = 0
    /\ txState = "none"
    /\ openSeen = FALSE
    /\ unplanned = 0
    /\ commands = [id \in RegistryIds |-> NoDescriptor]
    /\ removedBy = [id \in RegistryIds |-> "never"]
    /\ rpc = "idle"
    /\ req = NoRequest
    /\ outcome = "none"
    /\ resp = NoResponse
    /\ validateCalls = 0
    /\ executeCalls = 0
    /\ lastBatch = NoBatch
    /\ state = InitialState
    /\ listeners = <<>>
    /\ got = NoSnapshot
    /\ nextWrapper = 1
    /\ microtasks = {}
    /\ nextOpId = 1
    /\ nextEntryId = 1
    /\ kept = NoKept
    /\ onceCalls = [n \in 1..MaxOnce |-> 0]
    /\ notified = <<>>
    /\ notifiedWith = InitialState
    /\ unhandled = FALSE
    /\ lastCall = "none"
    /\ runs = {}
    /\ removeTimers = {}
    /\ lastPosted = "none"
    /\ posted = <<>>
    /\ sent = NoEnvelope
    /\ wire = NoText
    /\ parsed = NotParsed
    /\ built = NoBuilt
    /\ nextUuid = 1

SpecRegistry == Init /\ [][NextRegistry]_vars

\* ------------------------------------------------------------------------
\* The codec on its own: envelopes to serialize, texts to parse
\* ------------------------------------------------------------------------

EnvelopeKeys ==
    {"version", "type", "id", "timestamp", "channel", "payload", "requiresACK"}

\* An object with the properties of vals whose value is not "absent".
Absent == [t |-> "absent"]

ObjectOf(vals) == Obj([k \in {n \in DOMAIN vals : vals[n] # Absent} |-> vals[k]])

PayloadValues ==
    {Absent, Undefined, Null, Num(1), NaN, Str("text"),
     Obj("acknowledgedId" :> Str("m1")),
     Obj(("code" :> Str("E1")) @@ ("details" :> Undefined)),
     Obj(("duration" :> Infinity) @@ ("cached" :> Bool(FALSE)))}

\* Envelopes as the interface MessageEnvelope types them.
Envelopes ==
    {ObjectOf([k \in EnvelopeKeys |->
                 CASE k = "version" -> Str("1.0")
                   [] k = "type" -> type
                   [] k = "id" -> Str("m1")
                   [] k = "timestamp" -> timestamp
                   [] k = "channel" -> Str("command")
                   [] k = "payload" -> payload
                   [] k = "requiresACK" -> ack]) :
        type \in {Str("request"), Str("ping")},
        timestamp \in {Num(0), Num(1700), NaN, Infinity},
        payload \in PayloadValues,
        ack \in {Absent, Undefined, Bool(TRUE), Bool(FALSE)}}

JsonAbsent == [j |-> "absent"]

JsonObjectOf(vals) ==
    JsonObject([k \in {n \in DOMAIN vals : vals[n] # JsonAbsent} |-> vals[k]])

RequiredKeys == {"version", "type", "id", "timestamp", "channel"}

\* Texts a peer may send: no JSON, JSON that is no object, and objects with
\* any of the required members missing or of another kind.
Texts ==
    {NotJson, JsonNull, JsonNumber(5), JsonString("ping")}
    \cup {JsonObjectOf([k \in RequiredKeys \cup {"payload"} |->
                 CASE k = "version" -> version
                   [] k = "type" -> type
                   [] k = "id" -> id
                   [] k = "timestamp" -> timestamp
                   [] k = "channel" -> channel
                   [] k = "payload" -> JsonNull]) :
        version \in {JsonAbsent, JsonString("1.0"), JsonString("2.0"), JsonNumber(1)},
        type \in {JsonAbsent, JsonString("request"), JsonString("")},
        id \in {JsonAbsent, JsonString("m1"), JsonString(""), JsonNumber(5), JsonNull},
        timestamp \in {JsonAbsent, JsonNumber(1700), JsonNumber(0), JsonString("1700"),
                       JsonNull},
        channel \in {JsonAbsent, JsonString("command"), JsonString("")}}

\* ---- the registry as its callers fill it

Batches == UNION {[1..n -> DescriptorSet] : n \in 0..MaxBatch}

NextRegister ==
    \/ \E d \in DescriptorSet : Register(d)
    \/ \E descriptors \in Batches : RegisterBatch(descriptors)
    \/ \E id \in CommandIds : Unregister(id)
    \/ Clear

SpecRegister == Init /\ [][NextRegister]_vars

\* ---- the registry with the handlers of registerAllHandlers

HandlerDescriptors ==
    {[id |-> "file.create", handler |-> "fileOps"],
     [id |-> "debug.breakpoint", handler |-> "debug"],
     [id |-> "exec.run", handler |-> "exec"]}

DebugPayloads ==
    {[t |-> "object", type |-> ty, filePath |-> fp, lineNumber |-> ln,
      expression |-> ex, logLevel |-> lv] :
        ty \in {Undefined} \cup {Str(x) : x \in {"setBreakpoint", "addWatch",
                                                 "enableLogging", "bogus"}},
        fp \in TargetValues,
        ln \in {Undefined, Num(0), Num(3)},
        ex \in {Undefined, Str("x")},
        lv \in {Undefined, Str("info"), Str("loud")}}

ExecPaths == UNION {[1..n -> PathChars \cup {"py", "PY"}] : n \in 0..MaxPathLen}

ExecPayloads ==
    {[t |-> "object", filePath |-> fp] :
        fp \in {Undefined, Num(7)} \cup {Str(x) : x \in ExecPaths}}

HandlerPayloads(id) ==
    CASE id = "file.create" -> FilePayloads
      [] id = "debug.breakpoint" -> DebugPayloads
      [] id = "exec.run" -> ExecPayloads

ValidateCall ==
    /\ rpc = "idle"
    /\ \E d \in HandlerDescriptors :
         \E payload \in HandlerPayloads(d.id) :
            Execute([id |-> "r1", commandId |-> d.id, payload |-> payload], 0)

NextValidate ==
    \/ \E d \in HandlerDescriptors : Register(d)
    \/ ValidateCall
    \/ Settle

SpecValidate == Init /\ [][NextValidate]_vars

NextCodec ==
    \/ \E msg \in Envelopes : SerializeMessage(msg)
    \/ \E text \in Texts : Receive(text)
    \/ ParseMessage

SpecCodec == Init /\ [][NextCodec]_vars

\* ---- handlers whose responses have metadata, and handlers that have none

MetadataDescriptors ==
    {[id |-> "file.create", handler |-> "fileOps"],
     [id |-> "custom.run", handler |-> "stubMetadata"],
     [id |-> "custom.run", handler |-> "stubExecuteThrows"]}

\* Requests with a payload FileOpsHandler accepts, and with one it rejects.
MetadataRequests ==
    {[id |-> rid, commandId |-> id, payload |-> payload] :
        rid \in RequestIds, id \in {"file.create", "custom.run"},
        payload \in {[t |-> "object", type |-> Str("create"),
                      targetPath |-> Str(<<"a">>), sourcePath |-> Undefined,
                      content |-> Str(<<>>)],
                     [t |-> "object", type |-> Str("bogus"),
                      targetPath |-> Str(<<"a">>), sourcePath |-> Undefined,
                      content |-> Undefined]}}

MetadataCall ==
    /\ rpc = "idle"
    /\ \E request \in MetadataRequests, duration \in 0..MaxDuration :
          Execute(request, duration)

NextMetadata ==
    \/ \E descriptor \in MetadataDescriptors : Register(descriptor)
    \/ \E id \in {"file.create", "custom.run"} : Unregister(id)
    \/ MetadataCall
    \/ Settle

SpecMetadata == Init /\ [][NextMetadata]_vars

\* ---- the callers of the create* methods

\* Date.now()
Nows == {1, 1700}

\* The id of a request or of a ping, as a caller passes it on: an id, the
\* empty string, an id generateUUID made.
GivenIds == {Str("r1"), Str(""), generateUUID(1)}

OperationRequests ==
    {Obj([id |-> Str("r1"), commandId |-> Str("file.create"),
          payload |-> Obj([type |-> Str("create")])])}

OperationResponses ==
    {Obj([id |-> Str("r1"), status |-> Str("success")]),
     Obj([id |-> Str("r1"), status |-> Str("error"),
          error |-> Obj([code |-> Str("E"), message |-> Str("m")])])}

ErrorDetails == {Undefined, Obj([reason |-> Str("timeout")])}

NextCreate ==
    \/ \E operationRequest \in OperationRequests, requiresACK \in BOOLEAN,
          now \in Nows :
          CreateRequest(operationRequest, requiresACK, now)
    \/ \E operationResponse \in OperationResponses, requestId \in GivenIds,
          now \in Nows :
          CreateResponse(operationResponse, requestId, now)
    \/ \E requestId \in GivenIds \cup {Undefined}, details \in ErrorDetails,
          now \in Nows :
          CreateError(Str("E_FAIL"), Str("boom"), requestId, details, now)
    \/ \E now \in Nows : CreatePing(now)
    \/ \E pingId \in GivenIds, now \in Nows : CreatePong(pingId, now)
    \/ \E acknowledgedId \in GivenIds, now \in Nows : CreateACK(acknowledgedId, now)

SpecCreate == Init /\ [][NextCreate]_vars

\* The connection machine: the methods and the socket and timer events.
NextTransport ==
    \/ Connect
    \/ \E i \in Slots : OnOpen(i)
    \/ \E i \in Slots : OnError(i)
    \/ \E i \in Slots : OnClose(i)
    \/ OnTimer
    \/ Close

SpecTransport == Init /\ [][NextTransport]_vars

\* The reconnect timer is a setTimeout of the event loop: once armed it fires.
FairTransport == SpecTransport /\ WF_vars(OnTimer)

\* The connection machine with a caller of send().
NextSend ==
    \/ Connect
    \/ \E i \in Slots : OnOpen(i)
    \/ \E i \in Slots : OnError(i)
    \/ \E i \in Slots : OnClose(i)
    \/ OnTimer
    \/ Close
    \/ SendNow
    \/ SendWait
    \/ SendResume
    \/ SendTimeout

SpecSend == Init /\ [][NextSend]_vars

TypeOKTransport ==
    /\ ws \in 0..MaxSocks
    /\ sockState \in [Slots -> ReadyStates]
    /\ timers \in 0..MaxSocks
    /\ NumLive + timers <= MaxSocks

\* ------------------------------------------------------------------------
\* Claims about the transport
\* ------------------------------------------------------------------------

\* A step that starts a connection attempt: some socket becomes CONNECTING.
AttemptStarted ==
    \E i \in Slots : sockState[i] # "connecting" /\ sockState'[i] = "connecting"

WsClosed == ws # 0 /\ sockState[ws] = "closed"

WsConnecting == ws # 0 /\ sockState[ws] = "connecting"

\* C1: after close(), and until connect() is called again (shouldReconnect is
\* false before and after the step), no step starts a connection attempt; a
\* reconnect timer still pending at close() does nothing when it fires.
C1_NoAttemptAfterClose ==
    [][(~shouldReconnect /\ ~shouldReconnect') => ~AttemptStarted]_vars

\* C2: in every reachable state at most one socket created by the client is
\* CONNECTING or OPEN.
C2_SingleConnection ==
    Cardinality({i \in Slots : sockState[i] \in {"connecting", "open"}}) <= 1

\* C3: connect() called while the connection is Open is a no-op: it creates no
\* socket and leaves this.ws, the sockets' states and the backoff delay as
\* they were.
C3_ConnectIdempotent ==
    [][(Connect /\ WsOpen) => UNCHANGED <<ws, sockState, reconnectDelay>>]_vars

\* C4: in every reachable state the backoff delay is at least 1000 ms and at
\* most 30000 ms.
C4_DelayBounds ==
    FloorDelay <= reconnectDelay /\ reconnectDelay <= maxDelay

\* The backoff has grown to its ceiling and a reconnect is pending.
C4_Witness == reconnectDelay = maxDelay /\ timers > 0

RECURSIVE Pow2(_)
Pow2(n) == IF n = 0 THEN 1 ELSE 2 * Pow2(n - 1)

\* min(1000 * 2^(k-1), 30000)
ExpectedWait(k) == Min(FloorDelay * Pow2(k - 1), maxDelay)

\* C5: the k-th consecutive unplanned disconnect without an intervening
\* successful open arms its reconnect timer with min(1000*2^(k-1), 30000) ms;
\* in particular the first disconnect after a successful open waits 1000 ms.
C5_BackoffSchedule ==
    [][(timers' = timers + 1) => reconnectDelay = ExpectedWait(unplanned')]_vars

C7_SendContract ==
    /\ transmitted <= 1
    /\ txState \in {"none", "open"}
    /\ (sendPc = "sent") = (transmitted = 1)
    /\ (sendPc = "failed" => transmitted = 0)
    /\ (sendPc \in {"sent", "failed"} /\ ~openSeen => sendPc = "failed")

\* A send failed with no socket ever OPEN during it, and a later reconnect
\* has opened a connection.
C7_Witness == sendPc = "failed" /\ ~openSeen /\ transmitted = 0 /\ WsOpen

\* ---- the inputs of the StateManager

\* The entry a caller hands to addToHistory.
EntryInputs == {[commandId |-> Str("file.create"), status |-> "success"]}

\* A history list a caller has built: one entry more than the cap.
LongHistory ==
    [i \in 1..(HistoryCap + 1) |->
        [id |-> 0 - i, commandId |-> Str("file.create"), status |-> "success"]]

HistoryPartials ==
    {[history |-> LongHistory], [history |-> <<>>], [isLoading |-> TRUE]}

\* The history list: the methods that assign it.
NextHistory ==
    \/ \E entry \in EntryInputs : AddToHistory(entry)
    \/ ClearHistory
    \/ Reset
    \/ \E partial \in HistoryPartials : SetState(partial)

SpecHistory == Init /\ [][NextHistory]_vars

AIs == {Str("ai1"), Str("ai2")}

Models == {Str("m1")}

Files == {Str("f1")}

SelectedOperations == {Str("op1")}

\* The operation a caller hands to addOperation.
OperationInputs == {[commandId |-> Str("file.create"), status |-> "executing"]}

\* The ids addOperation has given out.
OpIds == 1..MaxOpIds

OperationPartials == {[status |-> "completed"], [status |-> "failed"]}

StorePartials ==
    {[selectedModel |-> Str("m1")],
     [isLoading |-> TRUE, uiMode |-> "compact"],
     [operations |-> <<>>]}

\* The fields of the state: the methods that assign them.
NextStore ==
    \/ \E partial \in StorePartials : SetState(partial)
    \/ \E aiId \in AIs : SetSelectedAI(aiId)
    \/ \E modelId \in Models : SetSelectedModel(modelId)
    \/ \E filePath \in Files : SetSelectedFile(filePath)
    \/ \E operationId \in SelectedOperations : SetSelectedOperation(operationId)
    \/ \E loading \in BOOLEAN : SetLoading(loading)
    \/ \E operation \in OperationInputs : AddOperation(operation)
    \/ \E id \in OpIds, partial \in OperationPartials : UpdateOperation(id, partial)
    \/ \E id \in OpIds : RemoveOperation(id)
    \/ ToggleUIMode
    \/ Reset

SpecStore == Init /\ [][NextStore]_vars

\* An operation object the holder of a getState() value has made.
ForeignOperations ==
    {[id |-> 0, commandId |-> Str("file.create"), status |-> "queued"]}

\* addToHistory, by a caller that makes MaxOps entries.
AddFewEntries ==
    /\ nextEntryId <= MaxOps
    /\ \E entry \in EntryInputs : AddToHistory(entry)

\* The holder of a getState() value changes it.
ReturnedValueChanged ==
    \/ \E operation \in ForeignOperations : PushReturnedOperation(operation)
    \/ PopReturnedHistory
    \/ \E i \in 1..MaxOps, partial \in OperationPartials :
          EditReturnedOperation(i, partial.status)
    \/ \E loading \in BOOLEAN : SetReturnedLoading(loading)

\* addOperation, by a caller that makes MaxOps operations.
AddFewOperations ==
    /\ nextOpId <= MaxOps
    /\ \E operation \in OperationInputs : AddOperation(operation)

\* A caller of getState that changes what it got, while the two lists of
\* the state grow and shrink.
NextSnapshot ==
    \/ GetState
    \/ ReturnedValueChanged
    \/ AddFewOperations
    \/ \E id \in OpIds : RemoveOperation(id)
    \/ AddFewEntries

SpecSnapshot == Init /\ [][NextSnapshot]_vars

\* The first addOperation of a manager.
AddFirstOperation ==
    /\ nextOpId = 1
    /\ \E operation \in OperationInputs : AddOperation(operation)

\* The first addToHistory of a manager.
AddFirstEntry ==
    /\ nextEntryId = 1
    /\ \E entry \in EntryInputs : AddToHistory(entry)

\* The methods that assign the state and emit, but for updateOperation
\* (which emits for an id it finds), as the callers of a manager that has
\* listeners call them.
EmittingCall ==
    \/ \E partial \in {[uiMode |-> "compact"]} : SetState(partial)
    \/ \E aiId \in {Str("ai1")} : SetSelectedAI(aiId)
    \/ \E modelId \in {Null} : SetSelectedModel(modelId)
    \/ \E filePath \in {Null} : SetSelectedFile(filePath)
    \/ \E operationId \in {Null} : SetSelectedOperation(operationId)
    \/ \E loading \in {TRUE} : SetLoading(loading)
    \/ AddFirstOperation
    \/ \E id \in 1..MaxOps : RemoveOperation(id)
    \/ AddFirstEntry
    \/ ClearHistory
    \/ ToggleUIMode
    \/ Reset

\* The listeners and the methods that notify them.
NextEmit ==
    \/ \E callback \in Callbacks : On(callback)
    \/ \E callback \in Callbacks : Unsubscribe(callback)
    \/ ClearListeners
    \/ EmittingCall
    \/ \E id \in 1..MaxOps, partial \in OperationPartials :
          UpdateOperation(id, partial)

SpecEmit == Init /\ [][NextEmit]_vars

\* once, and two methods that a caller runs back to back
\* (executeCommand: setLoading(true), then addOperation).
\* The fields of an operation a caller of updateOperation names.
UpdatePartials ==
    {[status |-> "completed"], [status |-> "failed"],
     [commandId |-> Str("custom.run")],
     [status |-> "completed", commandId |-> Str("custom.run")]}

\* updateOperation, for ids in the list and ids that are not, by the
\* callers of a manager that has listeners.
NextUpdate ==
    \/ \E callback \in {"ok", "throws"} : On(callback)
    \/ AddFewOperations
    \/ \E id \in OpIds, partial \in UpdatePartials : UpdateOperation(id, partial)
    \/ \E id \in OpIds : RemoveOperation(id)

SpecUpdate == Init /\ [][NextUpdate]_vars

\* A call that emits, by a caller that keeps the list of listeners short.
EmitWithin ==
    /\ Len(MapListeners(listeners).listeners) <= MaxListeners
    /\ \/ \E loading \in BOOLEAN : SetLoading(loading)
       \/ ToggleUIMode

\* Listeners that subscribe and unsubscribe while emit invokes them.
NextReentrant ==
    \/ \E callback \in {"ok", "throws"} \cup Reentrant : On(callback)
    \/ \E callback \in {"ok", "throws"} \cup Reentrant : Unsubscribe(callback)
    \/ ClearListeners
    \/ EmitWithin

SpecReentrant == Init /\ [][NextReentrant]_vars

\* A listener that keeps the event it is handed, and later reads or
\* changes it, while the methods of the manager go on assigning the state.
NextKept ==
    \/ \E callback \in {"keeps", "ok"} : On(callback)
    \/ \E callback \in {"keeps", "ok"} : Unsubscribe(callback)
    \/ \E loading \in BOOLEAN : SetLoading(loading)
    \/ \E filePath \in Files : SetSelectedFile(filePath)
    \/ AddFirstOperation
    \/ \E id \in 1..MaxOps : RemoveOperation(id)
    \/ Reset
    \/ \E loading \in BOOLEAN : SetKeptLoading(loading)

SpecKept == Init /\ [][NextKept]_vars

NextOnce ==
    \/ \E callback \in Callbacks : Once(callback)
    \/ \E n \in 1..MaxOnce : OnceResume(n)
    \/ \E loading \in BOOLEAN : SetLoading(loading)
    \/ AddFewOperations

SpecOnce == Init /\ [][NextOnce]_vars

\* ---- the inputs of the sidebar provider

\* registerAllHandlers: the file command of the model.
SidebarDescriptors == {[id |-> "file.create", handler |-> "fileOps"]}

\* message.payload of an executeCommand message: no object, or an object
\* whose commandId is a registered id, an unknown id or missing, and whose
\* file is missing, a relative path or no string.
CommandPayloads ==
    {Null}
    \cup {[commandId |-> c, file |-> f] :
            c \in {Str("file.create"), Str("no.such"), Undefined},
            f \in {Undefined, Str(<<"a">>), Num(7)}}

\* The ids executeCommand gets from addOperation.
CommandOpIds == 1..MaxCommands

Timers == {[operationId |-> id, delay |-> GracePeriod] : id \in CommandOpIds}

\* The calls of executeCommand that can be waiting for the registry.
Runs ==
    [operationId : CommandOpIds,
     commandId : {Str("file.create"), Str("no.such")},
     outcome : {"resolved", "rejected"},
     status : {"success", "error", "none"}]

\* The sidebar provider: the messages of the WebView, the registry's
\* answers and the timers.
NextSidebar ==
    \/ \E descriptor \in SidebarDescriptors : Register(descriptor)
    \/ \E payload \in CommandPayloads, duration \in 0..MaxDuration :
          ExecuteCommand(payload, duration)
    \/ \E run \in Runs : ExecuteCommandResume(run)
    \/ \E timer \in Timers : RemoveAfterDelay(timer)
    \/ MessageClearHistory

SpecSidebar == Init /\ [][NextSidebar]_vars

\* ---- the commands of registerAllHandlers, launched from the sidebar

\* The file selected in the sidebar: none, a plain name, and the relative
\* paths of a supported type.
LaunchFiles ==
    {Undefined, Str(<<"a">>)}
    \cup {Str(path) : path \in {p \in ExecPaths : PathErrors(p) = <<>> /\ Supported(p)}}

LaunchIds == {AllHandlers[i].id : i \in DOMAIN AllHandlers}

LaunchPayloads ==
    {[commandId |-> Str(id), file |-> f] : id \in LaunchIds, f \in LaunchFiles}

LaunchRuns ==
    [operationId : CommandOpIds,
     commandId : {Str(id) : id \in LaunchIds},
     outcome : {"resolved", "rejected"},
     status : {"success", "error", "none"}]

NextLaunch ==
    \/ RegisterAllHandlers
    \/ \E payload \in LaunchPayloads, duration \in 0..MaxDuration :
          ExecuteCommand(payload, duration)
    \/ \E run \in LaunchRuns : ExecuteCommandResume(run)
    \/ \E timer \in Timers : RemoveAfterDelay(timer)

SpecLaunch == Init /\ [][NextLaunch]_vars

\* A pending timer fires.
FairSidebar ==
    SpecSidebar /\ \A timer \in Timers : WF_vars(RemoveAfterDelay(timer))

\* A pending timer fires, and the promise of the registry settles: every
\* executeCommand that awaits it resumes.
FairCommands ==
    /\ SpecSidebar
    /\ WF_vars(\E timer \in Timers : RemoveAfterDelay(timer))
    /\ WF_vars(\E run \in Runs : ExecuteCommandResume(run))

\* ------------------------------------------------------------------------
\* Claims about the command registry
\* ------------------------------------------------------------------------

\* C8: execute never rejects: whatever the request and the registered
\* handler, also one whose validate throws on the payload, the promise
\* resolves to an OperationResponse.
C8_NeverRejects == rpc = "settled" => outcome = "resolved"

\* C9: execute on a command id that is not registered (never registered,
\* unregistered, or removed by clear) resolves to status error with code
\* COMMAND_NOT_FOUND and the request's id, and calls no handler.
C9_NotFound ==
    (rpc = "settled" /\ removedBy[req.commandId] # "none") =>
        /\ outcome = "resolved"
        /\ resp.status = "error"
        /\ resp.error.code = "COMMAND_NOT_FOUND"
        /\ resp.id = req.id
        /\ validateCalls = 0
        /\ executeCalls = 0

\* A command that was registered and then unregistered has been executed
\* while another command is still registered.
C9_Witness ==
    /\ rpc = "settled"
    /\ removedBy[req.commandId] = "unregister"
    /\ \E id \in CommandIds : commands[id] # NoDescriptor
    /\ resp.error.code = "COMMAND_NOT_FOUND"

\* What the registered handler's validate says of the request's payload.
ReqValidation == HandlerValidate(commands[req.commandId].handler, req.payload)

\* C10: execute on a registered command whose validate reports the payload
\* invalid never calls the handler's execute and resolves to status error,
\* code VALIDATION_ERROR, with the validator's whole error list in
\* details.errors.
C10_InvalidPayload ==
    (/\ rpc = "settled"
     /\ commands[req.commandId] # NoDescriptor
     /\ ~ReqValidation.threw
     /\ ~ReqValidation.valid) =>
        /\ executeCalls = 0
        /\ outcome = "resolved"
        /\ resp.status = "error"
        /\ resp.error.code = "VALIDATION_ERROR"
        /\ resp.error.errors = ReqValidation.errors

\* The file handler has reported several errors for one payload.
C10_Witness ==
    /\ rpc = "settled"
    /\ commands[req.commandId].handler = "fileOps"
    /\ validateCalls = 1
    /\ executeCalls = 0
    /\ resp.error.code = "VALIDATION_ERROR"
    /\ Len(resp.error.errors) >= 3

\* What the registered handler's execute does with the request.
ReqExecution == HandlerExecute(commands[req.commandId].handler, req)

\* C11: when the handler's execute throws or returns a rejected promise on
\* a payload that passed validation, execute resolves (it does not reject)
\* to status error with code EXECUTION_ERROR, and the message carries the
\* description of what was caught: the message of an Error, the string
\* form of any other value.
C11_ExecutionError ==
    (/\ rpc = "settled"
     /\ commands[req.commandId] # NoDescriptor
     /\ ~ReqValidation.threw
     /\ ReqValidation.valid
     /\ ReqExecution.threw) =>
        /\ outcome = "resolved"
        /\ executeCalls = 1
        /\ resp.status = "error"
        /\ resp.error.code = "EXECUTION_ERROR"
        /\ resp.error.message.text = "Command execution failed: "
        /\ resp.error.message.arg =
              (IF ReqExecution.error.t = "Error" THEN ReqExecution.error.message
               ELSE ReqExecution.error.v)

\* A handler's execute has rejected with a value that is no Error and the
\* response names that value.
C11_Witness ==
    /\ rpc = "settled"
    /\ commands[req.commandId].handler = "stubExecuteRejects"
    /\ outcome = "resolved"
    /\ resp.error.code = "EXECUTION_ERROR"
    /\ resp.error.message.arg = "denied"

\* C12: every OperationResponse execute returns carries the id of the
\* request, on the not-found, validation-error, execution-error and
\* success paths alike, whatever handler is registered.
C12_EchoesRequestId ==
    (rpc = "settled" /\ outcome = "resolved") => resp.id = req.id

\* ------------------------------------------------------------------------
\* Claims about the state manager
\* ------------------------------------------------------------------------

\* C14: in every state reachable through the public methods (setState,
\* addToHistory, clearHistory, reset and the others) the history holds at
\* most 50 entries.
C14_HistoryCapped == Len(state.history) <= HistoryCap

\* C15: addToHistory(entry) on a history h leaves the new entry followed by
\* the first min(|h|, 49) entries of h in their order; the entry that 51
\* consecutive calls evict is the oldest one.
C15_AddToHistory ==
    [][\A entry \in EntryInputs :
          AddToHistory(entry) =>
             /\ state'.history[1] =
                   [id |-> nextEntryId, commandId |-> entry.commandId,
                    status |-> entry.status]
             /\ Tail(state'.history) =
                   SubSeq(state.history, 1,
                          Min(Len(state.history), HistoryCap - 1))]_vars

\* 51 consecutive calls of addToHistory have left the 50 latest entries,
\* the most recent first; the first of the 51 is gone.
C15_Witness ==
    /\ lastCall = "addToHistory"
    /\ nextEntryId >= HistoryCap + 2
    /\ Len(state.history) = HistoryCap
    /\ \A i \in 1..HistoryCap : state.history[i].id = nextEntryId - i

\* C13: getState() returns a copy that is independent of the stored state:
\* no change of the returned value (adding, removing or editing elements
\* of its operations and history lists included) changes the stored state.
C13_SnapshotIndependent == [][ReturnedValueChanged => state' = state]_vars

\* C16: after setSelectedAI(x) the selected model is null, the selected AI
\* is x and every other field of the state is as it was.
C16_SetSelectedAI ==
    [][\A aiId \in AIs :
          SetSelectedAI(aiId) =>
             /\ state'.selectedAI = aiId
             /\ state'.selectedModel = Null
             /\ state'.selectedFile = state.selectedFile
             /\ state'.selectedOperation = state.selectedOperation
             /\ state'.isLoading = state.isLoading
             /\ state'.operations = state.operations
             /\ state'.history = state.history
             /\ state'.uiMode = state.uiMode]_vars

\* setSelectedAI has just run on a state whose other fields all differ
\* from their initial values.
C16_Witness ==
    /\ lastCall = "setSelectedAI"
    /\ state.selectedAI = Str("ai2")
    /\ state.selectedModel = Null
    /\ state.selectedFile # Null
    /\ state.selectedOperation # Null
    /\ state.isLoading
    /\ state.operations # <<>>
    /\ state.uiMode = "compact"

\* A call of one of the thirteen methods that change the state;
\* updateOperation counts when an operation has the id.
Mutation ==
    \/ EmittingCall
    \/ \E id \in 1..MaxOps, partial \in OperationPartials :
          HasOperation(state.operations, id) /\ UpdateOperation(id, partial)

\* C17: every call of a method that changes the state invokes, before it
\* returns, every listener subscribed at the call exactly once and in
\* order, with the state the method has left.
C17_MutationNotifies ==
    [][Mutation => (notified' = listeners /\ notifiedWith' = state')]_vars

\* A method has added an operation and both listeners were invoked with
\* the state that holds it, the first of them one that throws.
C17_Witness ==
    /\ lastCall = "addOperation"
    /\ Len(listeners) = 2
    /\ listeners[1].cb = "throws"
    /\ notified = listeners
    /\ notifiedWith = state
    /\ state.operations # <<>>

\* C18: when a listener fails, by throwing or by returning a promise that
\* rejects, every other listener is still invoked, and neither emit nor the
\* method that called it fails or leaves a rejection unhandled.
C18_ListenerIsolation ==
    [][Mutation => (notified' = listeners /\ ~unhandled')]_vars

\* C19: the callback handed to once is invoked for the first change of
\* the state after the registration and for no later one, also when
\* methods that change the state are called back to back.
C19_OnceAtMostOnce == \A n \in 1..MaxOnce : onceCalls[n] <= 1

\* ------------------------------------------------------------------------
\* Claims about the sidebar provider
\* ------------------------------------------------------------------------

\* The operation id is in the active list with a terminal status.
Terminal(id) ==
    \E i \in 1..Len(state.operations) :
        /\ state.operations[i].id = id
        /\ state.operations[i].status \in {"completed", "failed"}

\* C20: every pending operation that reaches a terminal status (completed
\* or failed) has a removal timer of 3000 ms and is removed from the active
\* list when the timer fires; that removal leaves the history as it is.
C20_TerminalRemoved ==
    /\ [](\A id \in CommandOpIds :
            Terminal(id) => [operationId |-> id, delay |-> 3000] \in removeTimers)
    /\ \A id \in CommandOpIds :
          Terminal(id) ~> ~HasOperation(state.operations, id)
    /\ [][\A timer \in Timers :
            RemoveAfterDelay(timer) => state'.history = state.history]_vars

\* The timer of a completed command has removed its operation and the
\* history still holds the command's entry.
C20_Witness ==
    /\ lastCall = "removeOperation"
    /\ state.operations = <<>>
    /\ removeTimers = {}
    /\ runs = {}
    /\ state.history # <<>>
    /\ state.history[1].status = "success"


\* ------------------------------------------------------------------------
\* The codec: round trip and rejection
\* ------------------------------------------------------------------------

\* A property that is there and not empty.
NonEmpty(x) == x.t \notin {"undefined", "null"} /\ ~(x.t = "string" /\ x.v = "")

\* A well-formed envelope: version '1.0', type, id and channel not empty,
\* a timestamp that is a number.
WellFormed(e) ==
    /\ e.t = "object"
    /\ Read(e, "version").t = "string"
    /\ Read(e, "version").v = "1.0"
    /\ NonEmpty(Read(e, "type"))
    /\ NonEmpty(Read(e, "id"))
    /\ NonEmpty(Read(e, "channel"))
    /\ TypeOf(Read(e, "timestamp")) = "number"

\* Two values agree in every property one can read, at any depth.
RECURSIVE SameValue(_, _)
SameValue(a, b) ==
    IF a.t = "object" /\ b.t = "object"
    THEN \A k \in DOMAIN a.fields \cup DOMAIN b.fields :
            SameValue(Read(a, k), Read(b, k))
    ELSE a = b

\* Every number in the value is finite.
RECURSIVE Finite(_)
Finite(x) ==
    CASE x.t \in {"NaN", "Infinity"} -> FALSE
      [] x.t = "object" -> \A k \in DOMAIN x.fields : Finite(x.fields[k])
      [] OTHER -> TRUE

RoundTripDone == sent # NoEnvelope /\ parsed.done

\* C21, as stated: for every well-formed envelope e,
\* parseMessage(serializeMessage(e)) succeeds and yields an envelope equal
\* to e in every field, payload and requiresACK included.
C21_RoundTrip ==
    (RoundTripDone /\ WellFormed(sent))
        => (parsed.ok /\ SameValue(parsed.envelope, sent))

\* What the codec does keep: the round trip succeeds and yields an envelope
\* equal to e in every field for every well-formed envelope in which every
\* number, the timestamp and those of the payload, is finite; with a
\* timestamp that is NaN or infinite parseMessage throws, and with a finite
\* timestamp it succeeds whatever the payload.
RoundTripFinite ==
    (RoundTripDone /\ WellFormed(sent))
        => /\ Finite(sent) => (parsed.ok /\ SameValue(parsed.envelope, sent))
           /\ parsed.ok <=> Finite(Read(sent, "timestamp"))

\* A round trip that keeps requiresACK, a timestamp of 0 and a payload with
\* a property that is undefined.
RoundTripKept ==
    /\ RoundTripDone
    /\ WellFormed(sent)
    /\ Read(sent, "requiresACK") = Bool(TRUE)
    /\ Read(sent, "timestamp") = Num(0)
    /\ Read(sent, "payload").t = "object"
    /\ "details" \in DOMAIN Read(sent, "payload").fields
    /\ parsed.ok
    /\ SameValue(parsed.envelope, sent)

\* The text is no JSON object, or its object lacks version, type, id,
\* channel or a numeric timestamp, or has another version than '1.0'.
Lacking(text) ==
    \/ text.j # "object"
    \/ \E k \in RequiredKeys : k \notin DOMAIN text.members
    \/ text.members["timestamp"].j # "number"
    \/ text.members["version"] # JsonString("1.0")

\* C22: parseMessage returns an envelope only if the parsed value is
\* well-formed; it fails and returns no envelope for any text whose object
\* lacks version, type, id, channel or a numeric timestamp, or whose
\* version is not '1.0'.
C22_ParseRejects ==
    parsed.done
        => /\ Lacking(wire) => (~parsed.ok /\ parsed.envelope = Undefined)
           /\ parsed.ok => WellFormed(parsed.envelope)

C22_Witness ==
    /\ parsed.done
    /\ sent = NoEnvelope
    /\ wire.j = "object"
    /\ DOMAIN wire.members = RequiredKeys \cup {"payload"}
    /\ wire.members["version"] = JsonString("2.0")
    /\ wire.members["timestamp"] = JsonNumber(1700)
    /\ ~parsed.ok

\* ------------------------------------------------------------------------
\* The registry: one descriptor per id
\* ------------------------------------------------------------------------

\* getCommandCount()
Count(cmds) == Cardinality({id \in DOMAIN cmds : cmds[id] # NoDescriptor})

\* The last descriptor of the list with this id; without one, what was there.
LastIn(descriptors, id, was) ==
    LET at == {i \in DOMAIN descriptors : descriptors[i].id = id}
    IN  IF at = {} THEN was
        ELSE descriptors[CHOOSE i \in at : \A j \in at : j <= i]

\* C23: register(descriptor) with an id already present replaces the
\* previous descriptor and leaves the count of commands unchanged, and it
\* touches no other id; after registerBatch every id holds the last
\* descriptor the list has for it, and one the list does not name holds
\* what it held; every descriptor is stored under its own id, so that there
\* is one per id.
C23_RegisterReplaces ==
    /\ [][\A d \in DescriptorSet :
            Register(d) =>
                /\ commands'[d.id] = d
                /\ \A id \in CommandIds \ {d.id} : commands'[id] = commands[id]
                /\ commands[d.id] # NoDescriptor => Count(commands') = Count(commands)]_vars
    /\ [](lastBatch.called =>
            \A id \in CommandIds :
                commands[id] = LastIn(lastBatch.descriptors, id, lastBatch.before[id]))
    /\ [](\A id \in CommandIds : commands[id] # NoDescriptor => commands[id].id = id)

C23_Witness ==
    /\ lastBatch.called
    /\ Len(lastBatch.descriptors) = 2
    /\ lastBatch.descriptors[1].id = lastBatch.descriptors[2].id
    /\ lastBatch.descriptors[1] # lastBatch.descriptors[2]
    /\ lastBatch.before[lastBatch.descriptors[1].id] \notin
            {NoDescriptor, lastBatch.descriptors[1], lastBatch.descriptors[2]}
    /\ commands[lastBatch.descriptors[2].id] = lastBatch.descriptors[2]
    /\ Count(commands) = Count(lastBatch.before)

\* ------------------------------------------------------------------------
\* The handlers' validate: the required path
\* ------------------------------------------------------------------------

\* The path a handler requires in its payload.
RequiredPath(handler, payload) ==
    IF handler = "fileOps" THEN payload.targetPath ELSE payload.filePath

\* Missing or empty, or a string with '..', a leading '/' or a null character.
BadPath(x) ==
    \/ x = Undefined
    \/ /\ x.t = "string"
       /\ \/ x.v = <<>>
          \/ Includes(x.v, <<".", ".">>)
          \/ StartsWith(x.v, "/")
          \/ Includes(x.v, <<"NUL">>)

\* An execute call has settled for a registered command and an object payload.
ReqValidated ==
    /\ rpc = "settled"
    /\ commands[req.commandId] # NoDescriptor
    /\ req.payload.t = "object"

\* C24: the validate of the file, debug and execution handlers returns
\* valid=false for every payload whose required path is missing or empty,
\* contains '..', starts with '/' or contains a null character, and execute
\* answers VALIDATION_ERROR with the errors of validate; for file.create
\* with {type:'create', content:''} the errors include that the target path
\* is required.
C24_PathRejected ==
    ReqValidated =>
        LET handler == commands[req.commandId].handler
            v == HandlerValidate(handler, req.payload)
        IN  /\ BadPath(RequiredPath(handler, req.payload)) =>
                /\ ~v.threw
                /\ ~v.valid
                /\ resp.status = "error"
                /\ resp.error.code = "VALIDATION_ERROR"
                /\ resp.error.errors = v.errors
                /\ executeCalls = 0
            /\ (/\ handler = "fileOps"
                /\ req.payload.type = Str("create")
                /\ req.payload.content = Str(<<>>)
                /\ req.payload.targetPath = Undefined) =>
                /\ resp.status = "error"
                /\ resp.error.code = "VALIDATION_ERROR"
                /\ \E i \in DOMAIN resp.error.errors :
                      resp.error.errors[i] = Message("Target path is required", "")

\* An execution payload whose only flaw is the parent directory.
C24_Witness ==
    /\ ReqValidated
    /\ commands[req.commandId].handler = "exec"
    /\ req.payload.filePath = Str(<<".", ".">>)
    /\ resp.error.code = "VALIDATION_ERROR"

\* What the handlers do keep: with a required path that is missing or bad,
\* validate returns valid=false and execute answers VALIDATION_ERROR unless
\* validate throws, which it does only in the file handler, on a source
\* path that is no string, and then the promise of execute rejects.
PathRejectedOrThrown ==
    (ReqValidated /\ BadPath(RequiredPath(commands[req.commandId].handler, req.payload)))
        => LET handler == commands[req.commandId].handler
               v == HandlerValidate(handler, req.payload)
           IN  IF v.threw
               THEN /\ handler = "fileOps"
                    /\ PathThrows(req.payload.sourcePath)
                    /\ outcome = "rejected"
               ELSE /\ ~v.valid
                    /\ resp.error.code = "VALIDATION_ERROR"
                    /\ resp.error.errors = v.errors

\* ------------------------------------------------------------------------
\* The transport: the error event
\* ------------------------------------------------------------------------

\* C25: an error event of a socket only notifies the informational
\* observer: it arms no reconnect timer and leaves the backoff delay, the
\* shutdown flag, the current connection and the state of every socket
\* unchanged; a reconnect timer is armed only by a close event.
C25_ErrorOnlyInforms ==
    /\ [][\A i \in Slots :
            OnError(i) =>
                /\ lastInfo' = "error"
                /\ UNCHANGED <<timers, reconnectDelay, shouldReconnect, ws,
                               sockState, connecting>>]_vars
    /\ [][timers' > timers => \E i \in Slots : OnClose(i)]_vars

\* The error event of the current socket was the last to be handled.
C25_Witness ==
    /\ lastInfo = "error"
    /\ ws # 0
    /\ sockState[ws] \in {"connecting", "open"}
    /\ timers = 0
    /\ shouldReconnect

\* ------------------------------------------------------------------------
\* The sidebar: the life of an operation
\* ------------------------------------------------------------------------

Executing(id) ==
    \E i \in 1..Len(state.operations) :
        /\ state.operations[i].id = id
        /\ state.operations[i].status = "executing"

\* C26: every operation executeCommand adds to the active list eventually
\* reaches a terminal status and is eventually removed from the list,
\* whatever the payload; none stays in status 'executing' forever.
C26_EventuallyDone ==
    \A id \in CommandOpIds :
        /\ Executing(id) ~> Terminal(id)
        /\ HasOperation(state.operations, id) ~> ~HasOperation(state.operations, id)

\* C27: isLoading is true in every state in which an operation of the
\* active list is executing; here for the operations whose executeCommand
\* still awaits the response of the registry.
C27_LoadingWhileAwaited ==
    (\E run \in runs : Executing(run.operationId)) => state.isLoading

\* The status of the operation id in a list of operations.
StatusIn(ops, id) ==
    IF HasOperation(ops, id)
    THEN ops[CHOOSE i \in 1..Len(ops) : ops[i].id = id].status
    ELSE "none"

\* C28: an executeCommand whose registry call returns adds exactly one
\* history entry; the entry is 'success' and the operation 'completed'
\* exactly when the response is 'success', otherwise 'error' and 'failed';
\* the operation has its terminal status before the entry is added, and
\* both before the commandResponse is posted: of the states the WebView is
\* sent before the commandResponse, the first has the terminal status and
\* not yet the entry, the second has both.
C28_EntryAgrees ==
    /\ [][\A run \in Runs :
            (ExecuteCommandResume(run) /\ run.outcome = "resolved") =>
                /\ Len(state'.history) = Len(state.history) + 1
                /\ Tail(state'.history) = state.history]_vars
    /\ [](\A k \in DOMAIN posted :
            posted[k].type = "commandResponse" =>
                LET id == posted[k].operationId
                    ok == posted[k].status = "success"
                    terminal == IF ok THEN "completed" ELSE "failed"
                IN  /\ k = 3
                    /\ posted[1].type = "stateUpdate"
                    /\ posted[2].type = "stateUpdate"
                    /\ StatusIn(posted[1].payload.operations, id) = terminal
                    /\ StatusIn(posted[2].payload.operations, id) = terminal
                    /\ Len(posted[2].payload.history) = Len(posted[1].payload.history) + 1
                    /\ Tail(posted[2].payload.history) = posted[1].payload.history
                    /\ posted[2].payload.history[1].status = (IF ok THEN "success" ELSE "error")
                    /\ state.history = posted[2].payload.history
                    /\ StatusIn(state.operations, id) = terminal)

\* A command the registry answered with an error: the operation has failed
\* and the newest entry is an error.
C28_Witness ==
    \E k \in DOMAIN posted :
        /\ posted[k].type = "commandResponse"
        /\ posted[k].status = "error"
        /\ StatusIn(state.operations, posted[k].operationId) = "failed"
        /\ state.history[1].status = "error"

\* ------------------------------------------------------------------------
\* The StateManager: updateOperation
\* ------------------------------------------------------------------------

\* C29: updateOperation(id, partial) with an id no operation of the active
\* list has changes nothing in the state and invokes no listener; with an
\* id an operation has, that operation gets the fields partial names and
\* keeps its others, every other operation and every other field of the
\* state stay as they are, and every listener is invoked once, with the
\* new state.
C29_UpdateOperation ==
    [][\A id \in OpIds, partial \in UpdatePartials :
        UpdateOperation(id, partial) =>
            IF ~HasOperation(state.operations, id)
            THEN /\ state' = state
                 /\ notified' = <<>>
                 /\ listeners' = listeners
            ELSE /\ Len(state'.operations) = Len(state.operations)
                 /\ \A i \in 1..Len(state.operations) :
                       LET old == state.operations[i]
                           new == state'.operations[i]
                       IN  IF old.id = id
                           THEN /\ new.id = old.id
                                /\ new.status = (IF "status" \in DOMAIN partial
                                                 THEN partial.status ELSE old.status)
                                /\ new.commandId = (IF "commandId" \in DOMAIN partial
                                                    THEN partial.commandId
                                                    ELSE old.commandId)
                           ELSE new = old
                 /\ [state' EXCEPT !.operations = state.operations] = state
                 /\ notified' = listeners
                 /\ notifiedWith' = state'
                 /\ listeners' = listeners]_vars

\* updateOperation has completed one of two operations and left the other
\* executing, and has invoked the two listeners.
C29_Witness ==
    /\ lastCall = "updateOperation"
    /\ Len(listeners) = 2
    /\ notified = listeners
    /\ Len(state.operations) = 2
    /\ state.operations[1].status = "executing"
    /\ state.operations[2].status = "completed"
    /\ state.operations[2].commandId = Str("file.create")
    /\ notifiedWith = state

\* ------------------------------------------------------------------------
\* The StateManager: the listeners one emit invokes
\* ------------------------------------------------------------------------

\* C30: on puts a listener behind those subscribed before it, and an emit
\* invokes the listeners that were subscribed when it was called, each
\* once, in that order, whether or not one of them subscribes or
\* unsubscribes a listener while the emit runs.
C30_EmitOrder ==
    /\ [][\A callback \in {"ok", "throws"} \cup Reentrant :
            On(callback) =>
                listeners' = Append(listeners, [cb |-> callback, wrapper |-> 0])]_vars
    /\ [][((\E loading \in BOOLEAN : SetLoading(loading)) \/ ToggleUIMode)
            => (notified' = listeners /\ notifiedWith' = state')]_vars

\* An emit has invoked a listener that another listener unsubscribed
\* while that emit ran.
C30_Witness ==
    /\ lastCall = "setLoading"
    /\ notified = <<[cb |-> "unsubscribes", wrapper |-> 0], Subscribed>>
    /\ listeners = <<[cb |-> "unsubscribes", wrapper |-> 0]>>

\* ------------------------------------------------------------------------
\* The StateManager: the function on returns
\* ------------------------------------------------------------------------

\* ls without its element at index i.
WithoutIndex(ls, i) == SubSeq(ls, 1, i - 1) \o SubSeq(ls, i + 1, Len(ls))

\* The number of registrations of a callback with on.
Registrations(ls, callback) ==
    Cardinality({i \in 1..Len(ls) : ls[i] = [cb |-> callback, wrapper |-> 0]})

\* C31: calling the function on(callback) returned ends that one
\* subscription; every other subscription stays registered, a second
\* registration of the same callback included.
C31_UnsubscribeOne ==
    [][\A callback \in {"ok", "throws"} \cup Reentrant :
          Unsubscribe(callback) =>
              \E i \in 1..Len(listeners) :
                  /\ listeners[i] = [cb |-> callback, wrapper |-> 0]
                  /\ listeners' = WithoutIndex(listeners, i)]_vars

\* The function on returned removes no subscription of another callback,
\* and none of its own callback is left.
UnsubscribeKeepsOthers ==
    [][\A callback \in {"ok", "throws"} \cup Reentrant :
          Unsubscribe(callback) =>
              /\ \A i \in 1..Len(listeners') : listeners'[i].cb # callback
              /\ \A other \in ({"ok", "throws"} \cup Reentrant) \ {callback} :
                    Registrations(listeners', other) = Registrations(listeners, other)]_vars

\* ------------------------------------------------------------------------
\* The StateManager: the event a listener is handed
\* ------------------------------------------------------------------------

\* The method called last handed its event to a listener that keeps it.
KeptAgain == \E i \in 1..Len(notified) : notified[i].cb = "keeps"

\* C32: the state a listener is handed is a snapshot: a later method of the
\* manager does not change the value the listener holds, and the listener
\* changing that value does not change the state of the manager.
C32_EventIsSnapshot ==
    /\ [][(kept.taken /\ kept'.taken /\ ~KeptAgain'
           /\ ~(\E loading \in BOOLEAN : SetKeptLoading(loading)))
            => kept'.value = kept.value]_vars
    /\ [][(\E loading \in BOOLEAN : SetKeptLoading(loading)) => state' = state]_vars

\* The event a listener kept is the state of the manager, whatever was
\* called since.
KeptIsState == kept.taken => kept.value = state

\* ------------------------------------------------------------------------
\* ProtocolHandler: the ids of the envelopes it creates
\* ------------------------------------------------------------------------

\* The id of the envelope the latest create* call returned.
BuiltId == Read(built.envelope, "id")

\* C33, as the specification states it: the envelope of createResponse has
\* the id requestId, and the envelope of createError has the id requestId
\* whenever one is supplied, a generated id only when none is.
C33_CarriesRequestId ==
    /\ built.by = "createResponse" => BuiltId = built.given
    /\ built.by = "createError" =>
          BuiltId = (IF built.given # Undefined THEN built.given ELSE built.generated)

\* C33: the envelope of createResponse has the id requestId; the envelope
\* of createError has the id requestId when that is a string that is not
\* empty, and otherwise (none supplied, or the empty string) a generated id.
C33_CarriesTruthyRequestId ==
    /\ built.by = "createResponse" => BuiltId = built.given
    /\ built.by = "createError" =>
          BuiltId = (IF built.given \notin {Undefined, Str("")}
                     THEN built.given ELSE built.generated)

\* createError was handed the empty string as requestId and generated an id.
C33_Witness ==
    /\ built.by = "createError"
    /\ built.given = Str("")
    /\ BuiltId = generateUUID(2)

\* A create* method has returned an envelope.
HasBuilt == built.by # "none"

\* C34: every envelope a create* method returns, whatever its arguments,
\* is well-formed: isValidMessage accepts it, and parseMessage accepts the
\* text serializeMessage makes of it.
C34_CreatedWellFormed ==
    HasBuilt =>
        /\ isValidMessage(built.envelope)
        /\ parseMessage(serializeMessage(built.envelope)).ok

\* The envelopes of the methods that generate the id are well-formed, and
\* so is that of createResponse for a requestId that is not empty.
CreatedWellFormedWithId ==
    (HasBuilt /\ ~(built.by = "createResponse" /\ built.given = Str(""))) =>
        /\ isValidMessage(built.envelope)
        /\ parseMessage(serializeMessage(built.envelope)).ok

\* C36: the envelope of createPong(pingId) has type pong, channel
\* heartbeat, payload null and the id generateUUID made for it, whatever
\* pingId is.
C36_PongOwnId ==
    built.by = "createPong" =>
        /\ Read(built.envelope, "type") = Str("pong")
        /\ Read(built.envelope, "channel") = Str("heartbeat")
        /\ Read(built.envelope, "payload") = Null
        /\ BuiltId = built.generated
        /\ BuiltId = generateUUID(nextUuid - 1)

\* createPong was handed the id of a ping and returned a pong with
\* another, generated, id.
C36_Witness ==
    /\ built.by = "createPong"
    /\ built.given = Str("r1")
    /\ BuiltId = generateUUID(1)

\* ------------------------------------------------------------------------
\* ProtocolHandler: how parseMessage fails
\* ------------------------------------------------------------------------

\* parseMessage has thrown.
ParseFailed == parsed.done /\ ~parsed.ok

\* C35: parseMessage fails with a ParseError on a text that is no JSON and
\* with a ValidationError on a JSON text that is no well-formed envelope:
\* the kind of the failure tells the two apart.
C35_FailureKinds ==
    ParseFailed =>
        parsed.name = (IF wire = NotJson THEN "ParseError" ELSE "ValidationError")

\* Both failures are an Error whose message begins alike; they differ in
\* the rest of the message only.
FailuresArePlainErrors ==
    ParseFailed =>
        /\ parsed.name = "Error"
        /\ parsed.error =
              Message("Failed to parse message: ",
                      IF wire = NotJson THEN "SyntaxError"
                      ELSE "Invalid message format: missing required fields or invalid version")

\* ------------------------------------------------------------------------
\* CommandRegistry: the duration in the metadata of a response
\* ------------------------------------------------------------------------

\* execute(request) runs the handler of the command, and the handler
\* returns a response.
HandlerSucceeds(request) ==
    LET descriptor == commands[request.commandId]
    IN  /\ descriptor # NoDescriptor
        /\ ~HandlerValidate(descriptor.handler, request.payload).threw
        /\ HandlerValidate(descriptor.handler, request.payload).valid
        /\ ~HandlerExecute(descriptor.handler, request).threw

\* The response of the handler of the command.
HandlerResponse(request) ==
    HandlerExecute(commands[request.commandId].handler, request).response

\* C37: when the handler returns a response, execute returns that
\* response with metadata.duration set to the duration the registry
\* measured, whatever duration the handler put there; the other keys of
\* metadata and the other fields of the response are the handler's.
C37_DurationMerged ==
    [][\A request \in MetadataRequests, duration \in 0..MaxDuration :
          (Execute(request, duration) /\ HandlerSucceeds(request)) =>
              /\ outcome' = "resolved"
              /\ resp'.metadata.duration = Num(duration)
              /\ resp'.metadata.cached = HandlerResponse(request).metadata.cached
              /\ \A field \in DOMAIN resp' \ {"metadata"} :
                    resp'[field] = HandlerResponse(request)[field]]_vars

\* execute has returned the response of a handler that had put a duration
\* of its own and another key in the metadata.
C37_Witness ==
    /\ rpc = "settled"
    /\ outcome = "resolved"
    /\ commands[req.commandId].handler = "stubMetadata"
    /\ resp.status = "success"
    /\ resp.metadata.duration = Num(0)
    /\ resp.metadata.cached = Bool(TRUE)

\* ------------------------------------------------------------------------
\* The sidebar provider: the payloads it builds for the registered commands
\* ------------------------------------------------------------------------

\* A relative path of a supported type, as validateFilePath and ExecHandler
\* check it.
ValidSupported(file) ==
    file.t = "string" /\ PathErrors(file.v) = <<>> /\ Supported(file.v)

\* The call of executeCommand for this payload ends with a success
\* response of the registry.
LaunchSucceeds(payload) ==
    \A duration \in 0..MaxDuration :
        ExecuteCommand(payload, duration) =>
            \E run \in runs' \ runs :
                run.outcome = "resolved" /\ run.status = "success"

\* C38: every command registerAllHandlers registers, launched from the
\* sidebar with a valid relative file path of a supported type selected,
\* gets a payload its handler's validate accepts, and a success response.
C38_LaunchSucceeds ==
    [][\A payload \in LaunchPayloads :
          (commands[payload.commandId.v] # NoDescriptor /\ ValidSupported(payload.file))
              => LaunchSucceeds(payload)]_vars

\* The commands whose payload passes: those of FileOpsHandler that need no
\* source path, and exec.run.
LaunchSucceedsWithoutSource ==
    [][\A payload \in LaunchPayloads :
          (/\ commands[payload.commandId.v] # NoDescriptor
           /\ ValidSupported(payload.file)
           /\ payload.commandId.v \in {"file.create", "file.delete", "file.modify",
                                       "exec.run"})
              => LaunchSucceeds(payload)]_vars

====
